---- MODULE Spec2Model ----
(***************************************************************************)
(* Model of the e-mail agent's utility layer: the domain/e-mail classifier *)
(* (src/utils.py, src/config.py), the backoff executor                    *)
(* retry_with_backoff (src/utils.py) and the research_contact tool         *)
(* (src/agent.py) that consumes both.                                      *)
(*                                                                         *)
(* Python strings are sequences of one-character strings; a Python value   *)
(* that may be None is a record tagged "str" or "none".                      *)
(***************************************************************************)
EXTENDS Integers, Sequences, FiniteSets, TLC

VARIABLES
    \* ---- retry_with_backoff (one invocation) ----
    pc,              \* position inside retry_with_backoff
    max_attempts,    \* keyword argument max_attempts
    base_delay,      \* keyword argument base_delay
    func_args,       \* the *args / **kwargs given for func
    attempt,         \* the loop variable
    last_exception,  \* the local last_exception
    trace,           \* what the call did so far: invocations of func, log records, sleeps
    outcome,         \* how the call ended
    call_site,       \* the call as its caller wrote it
    \* ---- the classifier functions and the module state they read ----
    BLOCKED_DOMAIN_PATTERNS,  \* config.BLOCKED_DOMAIN_PATTERNS
    PERSONAL_EMAIL_DOMAINS,   \* config.PERSONAL_EMAIL_DOMAINS
    cls_fn,          \* the classifier function called last
    cls_arg,         \* its argument
    cls_out,         \* what it returned or raised
    caplog,          \* the log records that call emitted
    \* ---- research_contact (one invocation) ----
    rc_pc,           \* position inside research_contact
    rc_email,        \* the argument email
    rc_domain,       \* the local domain
    social_links,    \* the local social_links
    rc_calls,        \* calls made to memory and web, in order
    rc_checks,       \* the checks the address has passed so far
    rc_result,       \* which message the call returned
    rc_log,          \* log records emitted by the call
    \* ---- set_env_flag: the file, its lock, and each caller's locals ----
    env_exists,      \* whether the file ENV_FILE exists
    env_content,     \* the text stored in the file
    flock_holder,    \* the caller whose file description holds the flock, or "none"
    ef_pc,           \* each caller's position inside set_env_flag
    ef_key,          \* each caller's argument key
    ef_value,        \* each caller's argument value
    ef_lines,        \* each caller's local lines
    ef_buffer,       \* text written to each caller's f and not yet flushed
    ef_pos,          \* the offset of each caller's f
    ef_err,          \* whether an OSError is on its way out of each caller's call
    ef_started,      \* number of calls made so far
    ef_before,       \* per caller running alone: the file as its call found it
    ef_log,          \* records logged by set_env_flag
    ef_history,      \* the calls that have ended, in the order they ended
    \* ---- require_send_approval (one tool call) ----
    ap_pc,           \* position inside require_send_approval
    pending_tool,    \* agent.current_session["pending_tool"]
    ap_console,      \* the panels printed on the console
    ap_inputs,       \* the lines read from the user at the prompt
    ap_outcome,      \* how the handler ended: "returned" or the exception raised
    tool_ran,        \* whether the pending tool has been executed
    \* ---- the agent singletons of src/agent.py and the threads that ask for them ----
    _agent,          \* the module global _agent (0 for None)
    _init_crm_agent, \* the module global _init_crm_agent (0 for None)
    _lock,           \* the thread that holds _lock, or "free"
    ag_pc,           \* each thread's position inside its call
    ag_fn,           \* the function each thread is running
    ag_new,          \* the Agent each thread has constructed and not yet assigned
    ag_objects,      \* every Agent object constructed so far
    ag_resets,       \* how many times reset_agent has cleared the globals
    ag_started,      \* number of calls made so far
    ag_history,      \* the calls that have ended, in the order they ended
    \* ---- one call of a helper of src/utils.py (safe_truncate, parse_memory_line) ----
    util_fn,         \* the helper called
    util_args,       \* its arguments
    util_out,        \* what it returned or raised
    \* ---- the email-insights plugin: its cache, the clock, one handler call at a time ----
    _insights_cache, \* the module global _insights_cache: key -> (insight, timestamp)
    now,             \* what time.time() returns
    ticks,           \* how many times the clock has moved
    ei_pc,           \* position inside add_email_insights
    ei_call,         \* the handler call under way: its inputs and what it has done
    ei_started,      \* number of handler calls made so far
    ei_history       \* the handler calls that have ended, in order

rwb_vars == <<pc, max_attempts, base_delay, func_args, attempt, last_exception, trace, outcome, call_site>>

config_vars == <<BLOCKED_DOMAIN_PATTERNS, PERSONAL_EMAIL_DOMAINS>>
cls_vars == <<cls_fn, cls_arg, cls_out, caplog>>

rc_vars == <<rc_pc, rc_email, rc_domain, social_links, rc_calls, rc_checks, rc_result, rc_log>>

env_vars == <<env_exists, env_content, flock_holder, ef_pc, ef_key, ef_value, ef_lines,
              ef_buffer, ef_pos, ef_err, ef_started, ef_before, ef_log, ef_history>>

ap_vars == <<ap_pc, pending_tool, ap_console, ap_inputs, ap_outcome, tool_ran>>

ag_vars == <<_agent, _init_crm_agent, _lock, ag_pc, ag_fn, ag_new, ag_objects, ag_resets,
             ag_started, ag_history>>

util_vars == <<util_fn, util_args, util_out>>

ei_vars == <<_insights_cache, now, ticks, ei_pc, ei_call, ei_started, ei_history>>

vars == <<rwb_vars, config_vars, cls_vars, rc_vars, env_vars, ap_vars, ag_vars, util_vars, ei_vars>>

\* ------------------------------------------------------------------ bounds

\* largest max_attempts a caller passes in the model (the smallest is -1)
MaxAttempts == 4
\* largest base_delay a caller passes in the model
MaxBaseDelay == 2
\* most whitespace characters put on either side of a domain
MaxPad == 1
\* most calls of set_env_flag made in one run of the model
MaxCalls == 3
\* most answers other than y and n the user types at one prompt
MaxInvalidAnswers == 1
\* most calls of get_agent, _get_init_crm_agent and reset_agent in one run of the model
MaxAgentCalls == 4
\* longest text given to safe_truncate, and one less than the largest max_length
MaxTextLen == 6
\* most calls of add_email_insights in one run of the model
MaxInsightCalls == 3
\* most moves of the clock in one run of the model
MaxTicks == 2

\* ------------------------------------------------- retry_with_backoff

LLM_RETRY_ATTEMPTS == 3
LLM_RETRY_DELAY == 1

\* Exception classes func may raise.  The first three derive from Exception;
\* KeyboardInterrupt derives from BaseException only.
ExceptionTypes == {"Exception", "ValueError", "TypeError"}
BaseOnlyTypes == {"KeyboardInterrupt"}
RaisableTypes == ExceptionTypes \cup BaseOnlyTypes

\* Values func may return: a truthy one and the falsy None, 0 and [].
ReturnValues == {"success", "None", "0", "[]"}
FalsyValues == {"None", "0", "[]"}

\* An exception instance: its class and which raise created it.  origin is
\* "func" for an exception raised by the wrapped operation (id = number of the
\* invocation that raised it) and "interpreter" for one Python itself creates.
ExcInstance(type, origin, id) == [type |-> type, origin |-> origin, id |-> id]
NoException == [type |-> "None", origin |-> "none", id |-> 0]

NoOutcome == [kind |-> "none", value |-> "None", exc |-> NoException]
Returned(v) == [kind |-> "return", value |-> v, exc |-> NoException]
Raised(e) == [kind |-> "raise", value |-> "None", exc |-> e]

\* Argument lists a caller forwards to func.
ArgChoices == {
    [args |-> <<>>, kwargs |-> {}],
    [args |-> <<"arg1", "arg2">>, kwargs |-> {<<"key1", "value1">>}] }

Event(ev, att, out, delay, args) ==
    [ev |-> ev, attempt |-> att, out |-> out, delay |-> delay, args |-> args]
NoArgs == [args |-> <<>>, kwargs |-> {}]

\* A call retry_with_backoff(func, *args, **keywords) as written by its caller:
\* the positional arguments after func, the keywords max_attempts and
\* base_delay where given (overrides) and the other keywords (kwargs).
CallSite(args, overrides, kwargs) == [args |-> args, overrides |-> overrides, kwargs |-> kwargs]
NoOverrides == [k \in {} |-> 0]
NoCall == CallSite(<<>>, NoOverrides, {})

\* The signature binds the keyword-only parameters max_attempts and base_delay
\* to the caller's keyword, or to the configured default.
BoundMaxAttempts(call) ==
    IF "max_attempts" \in DOMAIN call.overrides
      THEN call.overrides["max_attempts"] ELSE LLM_RETRY_ATTEMPTS
BoundBaseDelay(call) ==
    IF "base_delay" \in DOMAIN call.overrides
      THEN call.overrides["base_delay"] ELSE LLM_RETRY_DELAY

\* What *args and **kwargs would hold if the signature took every keyword into
\* **kwargs and read max_attempts and base_delay from it without removing them.
ForwardedArgsWithOverrides(call) ==
    [args |-> call.args,
     kwargs |-> call.kwargs \cup {<<k, "override">> : k \in DOMAIN call.overrides}]
\* *args and **kwargs: the positional arguments after func and the keywords
\* other than max_attempts and base_delay; `func(*args, **kwargs)` passes them.
ForwardedArgs(call) == [args |-> call.args, kwargs |-> call.kwargs]

RECURSIVE Pow2(_)
Pow2(n) == IF n <= 0 THEN 1 ELSE 2 * Pow2(n - 1)

\* `except Exception as e`: the handler catches instances of Exception and of
\* its subclasses, nothing else.
CatchesOnlyValueError(type) == type = "ValueError"
Catches(type) == type \in ExceptionTypes

\* `last_exception = e`
KeepFirstException(prev, e) == IF prev = NoException THEN e ELSE prev
AssignLastException(prev, e) == e

\* `delay = base_delay * (2**attempt)`
DelayLinear(base, att) == base * (att + 1)
Delay(base, att) == base * Pow2(att)

\* `if attempt < max_attempts - 1`: a warning and a sleep, else the error record
WarnsOnEveryFailure(att, max) == att < max
HasAttemptsLeft(att, max) == att < max - 1

\* `for attempt in range(max_attempts)`: the position after the loop header is
\* evaluated with the loop variable about to take value att.
LoopHeader(att, max) == IF att < max THEN "attempt" ELSE "exhausted"

\* retry_with_backoff(func, *args, max_attempts=.., base_delay=.., **kwargs) is
\* entered with its parameters bound: last_exception = None, the loop starts.
rwb_enter(max, base, fargs) ==
    /\ pc = "idle"
    /\ max_attempts' = max
    /\ base_delay' = base
    /\ func_args' = fargs
    /\ last_exception' = NoException
    /\ attempt' = 0
    /\ pc' = LoopHeader(0, max)
    /\ UNCHANGED <<trace, outcome>>

\* What the loop would do if it took only a truthy value for success
\* (`result = func(...)`, `if result: return result`).
rwb_attempt_returns_truthy(v) ==
    /\ pc = "attempt"
    /\ trace' = Append(trace, Event("call", attempt, Returned(v), 0, func_args))
    /\ IF v \in FalsyValues
         THEN /\ attempt' = attempt + 1
              /\ pc' = LoopHeader(attempt + 1, max_attempts)
              /\ UNCHANGED outcome
         ELSE /\ pc' = "returned"
              /\ outcome' = Returned(v)
              /\ UNCHANGED attempt
    /\ UNCHANGED <<max_attempts, base_delay, func_args, last_exception, call_site>>

\* `return func(*args, **kwargs)` when func returns v.
rwb_attempt_returns(v) ==
    /\ pc = "attempt"
    /\ trace' = Append(trace, Event("call", attempt, Returned(v), 0, func_args))
    /\ pc' = "returned"
    /\ outcome' = Returned(v)
    /\ UNCHANGED <<max_attempts, base_delay, func_args, attempt, last_exception, call_site>>

\* func raises an exception of class type.  Caught: it is recorded, and either a
\* warning is logged and the sleep is next, or an error is logged and the loop
\* ends.  Not caught: it leaves retry_with_backoff at once.
rwb_attempt_raises(type) ==
    /\ pc = "attempt"
    /\ LET e == ExcInstance(type, "func", Len(SelectSeq(trace, LAMBDA x : x.ev = "call")) + 1)
           called == Append(trace, Event("call", attempt, Raised(e), 0, func_args))
       IN IF Catches(type)
            THEN /\ last_exception' = AssignLastException(last_exception, e)
                 /\ IF HasAttemptsLeft(attempt, max_attempts)
                      THEN /\ trace' = Append(called,
                                  Event("warning", attempt, NoOutcome,
                                        Delay(base_delay, attempt), NoArgs))
                           /\ pc' = "sleep"
                           /\ UNCHANGED attempt
                      ELSE /\ trace' = Append(called,
                                  Event("error", attempt, NoOutcome, 0, NoArgs))
                           /\ attempt' = attempt + 1
                           /\ pc' = LoopHeader(attempt + 1, max_attempts)
                 /\ UNCHANGED outcome
            ELSE /\ trace' = called
                 /\ pc' = "raised"
                 /\ outcome' = Raised(e)
                 /\ UNCHANGED <<attempt, last_exception>>
    /\ UNCHANGED <<max_attempts, base_delay, func_args, call_site>>

\* `time.sleep(delay)` returns; the loop goes to its next iteration.
rwb_sleep ==
    /\ pc = "sleep"
    /\ trace' = Append(trace, Event("sleep", attempt, NoOutcome,
                                    Delay(base_delay, attempt), NoArgs))
    /\ attempt' = attempt + 1
    /\ pc' = LoopHeader(attempt + 1, max_attempts)
    /\ UNCHANGED <<max_attempts, base_delay, func_args, last_exception, outcome, call_site>>

\* `raise last_exception` after the loop.  Raising None makes the interpreter
\* raise a TypeError of its own ("exceptions must derive from BaseException").
rwb_raise_last ==
    /\ pc = "exhausted"
    /\ pc' = "raised"
    /\ outcome' = IF last_exception = NoException
                    THEN Raised(ExcInstance("TypeError", "interpreter", 0))
                    ELSE Raised(last_exception)
    /\ UNCHANGED <<max_attempts, base_delay, func_args, attempt, last_exception, trace, call_site>>

\* ------------------------------------------------------------ Python values

\* A str is the sequence of its characters; None is a value of its own.
PyStr(s) == [tag |-> "str", s |-> s, b |-> FALSE, exc |-> "None"]
PyNone == [tag |-> "none", s |-> <<>>, b |-> FALSE, exc |-> "None"]
PyBool(b) == [tag |-> "bool", s |-> <<>>, b |-> b, exc |-> "None"]
\* the call did not return: it raised an exception of class type
PyRaise(type) == [tag |-> "raise", s |-> <<>>, b |-> FALSE, exc |-> type]

UpperLetters == <<"A", "B", "C", "D", "E", "F", "G", "H", "I", "J", "K", "L", "M", "N", "O", "P", "Q", "R", "S", "T", "U", "V", "W", "X", "Y", "Z">>
LowerLetters == <<"a", "b", "c", "d", "e", "f", "g", "h", "i", "j", "k", "l", "m", "n", "o", "p", "q", "r", "s", "t", "u", "v", "w", "x", "y", "z">>
Digits == {"0", "1", "2", "3", "4", "5", "6", "7", "8", "9"}
Letters == {UpperLetters[i] : i \in 1 .. 26} \cup {LowerLetters[i] : i \in 1 .. 26}
\* the characters str.strip() removes (the ASCII ones)
Whitespace == {" ", "\t", "\n", "\r", "\f"}

\* str.lower(), character by character
LowerChar(c) ==
    IF \E i \in 1 .. 26 : UpperLetters[i] = c
      THEN LowerLetters[CHOOSE i \in 1 .. 26 : UpperLetters[i] = c]
      ELSE c
lower(s) == [i \in 1 .. Len(s) |-> LowerChar(s[i])]

\* str.strip(): drops the leading and the trailing whitespace
strip(s) ==
    LET keep == {i \in 1 .. Len(s) : s[i] \notin Whitespace}
    IN IF keep = {} THEN <<>>
       ELSE SubSeq(s, CHOOSE i \in keep : \A j \in keep : i <= j,
                      CHOOSE i \in keep : \A j \in keep : i >= j)

\* `"@" in s`
HasAt(s) == \E i \in 1 .. Len(s) : s[i] = "@"

\* `s.split("@", 1)[1]`, what the split would give if it stopped at the first
\* "@": all the text after it
split_at_maxsplit_1(s) ==
    LET first == CHOOSE i \in 1 .. Len(s) : s[i] = "@" /\ \A j \in 1 .. i - 1 : s[j] # "@"
    IN SubSeq(s, first + 1, Len(s))
\* `s.split("@")[1]`, for s holding an "@": the text after the first "@" and
\* before the second one, if there is a second one.
split_at_1(s) ==
    LET first == CHOOSE i \in 1 .. Len(s) : s[i] = "@" /\ \A j \in 1 .. i - 1 : s[j] # "@"
        later == {i \in first + 1 .. Len(s) : s[i] = "@"}
        stop == IF later = {} THEN Len(s) + 1
                ELSE CHOOSE i \in later : \A j \in later : i <= j
    IN SubSeq(s, first + 1, stop - 1)

\* ------------------------------------------------------ regular expressions

\* A pattern of config.BLOCKED_DOMAIN_PATTERNS: `^` or not, `$` or not, and
\* between them alternatives, each a sequence of character classes.
Pattern(bol, eol, alts) == [bol |-> bol, eol |-> eol, alts |-> alts]
Lit(s) == [i \in 1 .. Len(s) |-> {s[i]}]

\* alt matches s from position i on
MatchesAt(alt, s, i) ==
    /\ i + Len(alt) - 1 <= Len(s)
    /\ \A j \in 1 .. Len(alt) : s[i + j - 1] \in alt[j]

\* `$` at position k of s (k is the position after the match): the end of the
\* string, or just before a newline that ends the string.
AtDollar(s, k) == k = Len(s) + 1 \/ (k = Len(s) /\ s[k] = "\n")

\* re.match(pattern, s): a match that starts at the first character
re_match(p, s) ==
    \E alt \in p.alts :
        /\ MatchesAt(alt, s, 1)
        /\ p.eol => AtDollar(s, 1 + Len(alt))
\* re.search(pattern, s): a match anywhere in s
re_search(p, s) ==
    \E alt \in p.alts, i \in (IF p.bol THEN {1} ELSE 1 .. Len(s) + 1) :
        /\ MatchesAt(alt, s, i)
        /\ p.eol => AtDollar(s, i + Len(alt))

HexDigits == Digits \cup {"a", "b", "c", "d", "e", "f"}

\* `localhost` as written in the list, and as an anchored variant
LocalhostAnchored == Pattern(TRUE, TRUE, {Lit(<<"l", "o", "c", "a", "l", "h", "o", "s", "t">>)})
LocalhostPattern == Pattern(FALSE, FALSE, {Lit(<<"l", "o", "c", "a", "l", "h", "o", "s", "t">>)})

\* config.BLOCKED_DOMAIN_PATTERNS, in order
InitialBlockedPatterns == <<
    Pattern(TRUE, FALSE, {Lit(<<"1", "2", "7", ".">>)}),
    Pattern(TRUE, FALSE, {Lit(<<"1", "0", ".">>)}),
    Pattern(TRUE, FALSE, {Lit(<<"1", "7", "2", ".">>) \o <<{"1"}, {"6", "7", "8", "9"}>> \o Lit(<<".">>),
                          Lit(<<"1", "7", "2", ".">>) \o <<{"2"}, Digits>> \o Lit(<<".">>),
                          Lit(<<"1", "7", "2", ".">>) \o <<{"3"}, {"0", "1"}>> \o Lit(<<".">>)}),
    Pattern(TRUE, FALSE, {Lit(<<"1", "9", "2", ".", "1", "6", "8", ".">>)}),
    Pattern(TRUE, FALSE, {Lit(<<"1", "6", "9", ".", "2", "5", "4", ".">>)}),
    Pattern(TRUE, FALSE, {Lit(<<"0", ".">>)}),
    Pattern(TRUE, TRUE, {Lit(<<":", ":", "1">>)}),
    Pattern(TRUE, FALSE, {Lit(<<"f", "d">>) \o <<HexDigits, HexDigits>> \o Lit(<<":">>)}),
    Pattern(TRUE, FALSE, {Lit(<<"f", "e", "8", "0", ":">>)}),
    LocalhostPattern,
    Pattern(FALSE, TRUE, {Lit(<<".", "i", "n", "t", "e", "r", "n", "a", "l">>)}),
    Pattern(FALSE, TRUE, {Lit(<<".", "l", "o", "c", "a", "l">>)}),
    Pattern(FALSE, TRUE, {Lit(<<".", "l", "o", "c", "a", "l", "d", "o", "m", "a", "i", "n">>)}),
    Pattern(FALSE, TRUE, {Lit(<<".", "c", "o", "r", "p">>)}),
    Pattern(FALSE, TRUE, {Lit(<<".", "l", "a", "n">>)}) >>

\* config.PERSONAL_EMAIL_DOMAINS
InitialPersonalDomains == {
    <<"g", "m", "a", "i", "l", ".", "c", "o", "m">>, <<"y", "a", "h", "o", "o", ".", "c", "o", "m">>, <<"h", "o", "t", "m", "a", "i", "l", ".", "c", "o", "m">>, <<"o", "u", "t", "l", "o", "o", "k", ".", "c", "o", "m">>, <<"i", "c", "l", "o", "u", "d", ".", "c", "o", "m">>,
    <<"a", "o", "l", ".", "c", "o", "m">>, <<"p", "r", "o", "t", "o", "n", "m", "a", "i", "l", ".", "c", "o", "m">>, <<"p", "r", "o", "t", "o", "n", ".", "m", "e">>, <<"m", "a", "i", "l", ".", "c", "o", "m">>, <<"z", "o", "h", "o", ".", "c", "o", "m">>,
    <<"y", "a", "n", "d", "e", "x", ".", "c", "o", "m">>, <<"g", "m", "x", ".", "c", "o", "m">>, <<"f", "a", "s", "t", "m", "a", "i", "l", ".", "c", "o", "m">>, <<"t", "u", "t", "a", "n", "o", "t", "a", ".", "c", "o", "m">>, <<"h", "e", "y", ".", "c", "o", "m">> }

\* ------------------------------------------------------------- classifier

\* the character classes of the pattern in is_valid_email
LocalPartChars == Letters \cup Digits \cup {".", "_", "%", "+", "-"}
\* the domain class as it would be without its hyphen, `[a-zA-Z0-9.]`
DomainPartCharsNoHyphen == Letters \cup Digits \cup {"."}
DomainPartChars == Letters \cup Digits \cup {".", "-"}

\* re.match(r"^[a-zA-Z0-9._%+-]+@[a-zA-Z0-9.-]+\.[a-zA-Z]{2,}$", s): s splits
\* into local part, "@" at a, domain labels, "." at d and a top-level label that
\* ends at e, where `$` holds.
email_pattern_matches(s) ==
    \E a \in {i \in 2 .. Len(s) : s[i] = "@"} :
        /\ \A i \in 1 .. a - 1 : s[i] \in LocalPartChars
        /\ \E d \in {i \in a + 2 .. Len(s) : s[i] = "."} :
              /\ \A i \in a + 1 .. d - 1 : s[i] \in DomainPartChars
              /\ \E e \in {i \in d + 2 .. Len(s) : AtDollar(s, i + 1)} :
                    \A i \in d + 1 .. e : s[i] \in Letters

\* is_valid_email(email): the value returned, or the exception raised
is_valid_email(email) ==
    IF email.tag = "none" \/ email.s = <<>> \/ ~HasAt(email.s)
      THEN PyBool(FALSE)
      ELSE PyBool(email_pattern_matches(email.s))

\* is_personal_email as it would be if it took the text after the last "@"
\* (`email.split("@")[-1]`)
is_personal_email_last_segment(email) ==
    IF email.tag = "none" THEN PyRaise("TypeError")
    ELSE IF ~HasAt(email.s) THEN PyBool(FALSE)
    ELSE LET last == CHOOSE i \in 1 .. Len(email.s) :
                         email.s[i] = "@" /\ \A j \in i + 1 .. Len(email.s) : email.s[j] # "@"
         IN PyBool(lower(SubSeq(email.s, last + 1, Len(email.s))) \in PERSONAL_EMAIL_DOMAINS)
\* is_personal_email as it would be without its `.lower()`
is_personal_email_case_sensitive(email) ==
    IF email.tag = "none" THEN PyRaise("TypeError")
    ELSE IF ~HasAt(email.s) THEN PyBool(FALSE)
    ELSE PyBool(split_at_1(email.s) \in PERSONAL_EMAIL_DOMAINS)
\* is_personal_email(email); `"@" not in None` raises TypeError
is_personal_email(email) ==
    IF email.tag = "none" THEN PyRaise("TypeError")
    ELSE IF ~HasAt(email.s) THEN PyBool(FALSE)
    ELSE PyBool(lower(split_at_1(email.s)) \in PERSONAL_EMAIL_DOMAINS)

\* extract_domain as it would be if it ended in `return domain or None`
extract_domain_or_none(email) ==
    IF email.tag = "none" THEN PyRaise("TypeError")
    ELSE IF ~HasAt(email.s) \/ split_at_1(email.s) = <<>> THEN PyNone
    ELSE PyStr(lower(split_at_1(email.s)))
\* extract_domain(email); `"@" not in None` raises TypeError
extract_domain(email) ==
    IF email.tag = "none" THEN PyRaise("TypeError")
    ELSE IF ~HasAt(email.s) THEN PyNone
    ELSE PyStr(lower(split_at_1(email.s)))

\* `domain_lower = domain.lower().strip()`
normalise_lower_only(s) == lower(s)
normalise(s) == strip(lower(s))

\* logger.warning(f"Blocked unsafe domain: {domain}")
BlockedWarning(domain) == [level |-> "warning", domain |-> domain]

\* The loop of is_safe_domain over patterns i, i+1, ..: the value returned and
\* the records logged.  scan_all is the loop without its `return False`.
RECURSIVE scan_all(_, _, _, _)
scan_all(patterns, i, domain_lower, domain) ==
    IF i > Len(patterns) THEN [out |-> PyBool(TRUE), log |-> <<>>]
    ELSE LET rest == scan_all(patterns, i + 1, domain_lower, domain)
         IN IF re_search(patterns[i], domain_lower)
              THEN [out |-> PyBool(FALSE), log |-> <<BlockedWarning(domain)>> \o rest.log]
              ELSE rest
RECURSIVE scan_patterns(_, _, _, _)
scan_patterns(patterns, i, domain_lower, domain) ==
    IF i > Len(patterns) THEN [out |-> PyBool(TRUE), log |-> <<>>]
    ELSE IF re_search(patterns[i], domain_lower)
           THEN [out |-> PyBool(FALSE), log |-> <<BlockedWarning(domain)>>]
           ELSE scan_patterns(patterns, i + 1, domain_lower, domain)

\* is_safe_domain(domain): the value returned or the exception raised, and the
\* records logged; `None.lower()` raises AttributeError
is_safe_domain(domain) ==
    IF domain.tag = "none" THEN [out |-> PyRaise("AttributeError"), log |-> <<>>]
    ELSE scan_patterns(BLOCKED_DOMAIN_PATTERNS, 1, normalise(domain.s), domain.s)

\* ---- one call of a classifier function, as a caller or a test makes it ----
\* (the model follows a single call: the functions keep no state between calls)

cls_call(fn, arg, out, log) ==
    /\ cls_fn = "none"
    /\ cls_fn' = fn
    /\ cls_arg' = arg
    /\ cls_out' = out
    /\ caplog' = log
    /\ UNCHANGED <<BLOCKED_DOMAIN_PATTERNS, PERSONAL_EMAIL_DOMAINS>>

call_is_valid_email(email) == cls_call("is_valid_email", email, is_valid_email(email), <<>>)
call_is_personal_email(email) == cls_call("is_personal_email", email, is_personal_email(email), <<>>)
call_extract_domain(email) == cls_call("extract_domain", email, extract_domain(email), <<>>)
call_is_safe_domain(domain) ==
    LET r == is_safe_domain(domain)
    IN cls_call("is_safe_domain", domain, r.out, r.log)

\* ------------------------------------------- inputs given to the classifier

\* whitespace put before and after a domain
PadChars == {" ", "\n"}
Pads == UNION {[1 .. n -> PadChars] : n \in 0 .. MaxPad}

\* Domains are assembled as head \o tail.
DomainHeads == {
    <<>>, <<"1", "2", "7", ".">>, <<"1", "0", ".">>, <<"1", "1", ".">>, <<"1", "7", "2", ".", "1", "5", ".">>, <<"1", "7", "2", ".", "1", "6", ".">>, <<"1", "7", "2", ".", "1", "9", ".">>, <<"1", "7", "2", ".", "2", "0", ".">>, <<"1", "7", "2", ".", "2", "9", ".">>,
    <<"1", "7", "2", ".", "3", "0", ".">>, <<"1", "7", "2", ".", "3", "1", ".">>, <<"1", "7", "2", ".", "3", "2", ".">>, <<"1", "9", "2", ".", "1", "6", "8", ".">>, <<"1", "9", "2", ".", "1", "6", "9", ".">>, <<"1", "6", "9", ".", "2", "5", "4", ".">>, <<"0", ".">>,
    <<":", ":", "1">>, <<"f", "d", "0", "0", ":">>, <<"f", "d", "a", "b", ":">>, <<"f", "e", "8", "0", ":">>, <<"f", "e", "9", "0", ":">>, <<"f", "e", "b", "f", ":">>, <<"l", "o", "c", "a", "l", "h", "o", "s", "t">>, <<"L", "O", "C", "A", "L", "H", "O", "S", "T">>, <<"s", "e", "r", "v", "e", "r">>, <<"S", "e", "r", "v", "e", "r">>,
    <<"g", "o", "o", "g", "l", "e">>, <<"a", "c", "m", "e">>, <<"e", "x", "a", "m", "p", "l", "e">> }
DomainTails == {
    <<>>, <<"0", ".", "0", ".", "1">>, <<":", "1">>, <<".", "i", "n", "t", "e", "r", "n", "a", "l">>, <<".", "l", "o", "c", "a", "l">>, <<".", "l", "o", "c", "a", "l", "d", "o", "m", "a", "i", "n">>, <<".", "c", "o", "r", "p">>, <<".", "l", "a", "n">>, <<".", "L", "O", "C", "A", "L">>,
    <<".", "c", "o", "m">>, <<".", "o", "r", "g">>, <<".", "c", "o", "r", "p", ".", "e", "x", "a", "m", "p", "l", "e", ".", "c", "o", "m">>, <<".", "i", "n", "t", "e", "r", "n", "a", "l", ".", "i", "o">>, <<".", "l", "a", "n", ".", "e", "x", "a", "m", "p", "l", "e", ".", "o", "r", "g">>,
    <<".", "l", "o", "c", "a", "l", "d", "o", "m", "a", "i", "n", ".", "n", "e", "t">>, <<".", "l", "o", "c", "a", "l", ".", "e", "x", "a", "m", "p", "l", "e", ".", "c", "o", "m">>, <<".", "m", "y", "l", "o", "c", "a", "l", "h", "o", "s", "t", ".", "c", "o", "m">> }
DomainInputs ==
    {PyNone} \cup
    {PyStr(l \o h \o t \o r) : l \in Pads, h \in DomainHeads, t \in DomainTails, r \in Pads}

\* E-mail addresses are assembled as local part, "@", rest; some have no "@".
EmailLocals == {<<>>, <<"u", "s", "e", "r">>, <<"U", "S", "E", "R">>, <<"u", "s", "e", "r", "+", "t", "a", "g">>, <<"u", "s", "e", "r", " ", "n", "a", "m", "e">>, <<" ", "u", "s", "e", "r">>, <<"u", "s", "e", "r", "#">>, <<"c", "e", "o">>}
EmailRests == {
    <<>>, <<"e", "x", "a", "m", "p", "l", "e", ".", "c", "o", "m">>, <<"a", "c", "m", "e", ".", "c", "o", "m">>, <<"g", "m", "a", "i", "l", ".", "c", "o", "m">>, <<"G", "M", "A", "I", "L", ".", "C", "O", "M">>, <<"G", "m", "a", "i", "l", ".", "C", "o", "m">>, <<"p", "r", "o", "t", "o", "n", ".", "m", "e">>,
    <<"s", "u", "b", "-", "d", "o", "m", "a", "i", "n", ".", "c", "o", ".", "u", "k">>, <<"c", "o", "m">>, <<"e", "x", "a", "m", "p", "l", "e", ".", "c">>, <<"s", "e", "r", "v", "e", "r", ".", "l", "o", "c", "a", "l">>, <<"s", "e", "r", "v", "e", "r", ".", "i", "n", "t", "e", "r", "n", "a", "l">>,
    <<"s", "e", "r", "v", "e", "r", ".", "c", "o", "r", "p">>, <<"s", "e", "r", "v", "e", "r", ".", "l", "a", "n">>, <<"l", "o", "c", "a", "l", "h", "o", "s", "t", ".", "c", "o", "m">>, <<"1", "0", ".", "0", ".", "0", ".", "1", ".", "c", "o", "m">>, <<"s", "e", "r", "v", "e", "r", ".", "c", "o", "r", "p", ".", "e", "x", "a", "m", "p", "l", "e", ".", "c", "o", "m">>,
    <<"d", "o", "m", "a", "i", "n", "@", "e", "x", "a", "m", "p", "l", "e", ".", "c", "o", "m">>, <<"g", "m", "a", "i", "l", ".", "c", "o", "m", "@", "e", "x", "a", "m", "p", "l", "e", ".", "c", "o", "m">>, <<"@", "e", "x", "a", "m", "p", "l", "e", ".", "c", "o", "m">>, <<"e", "x", "a", "m", "p", "l", "e", ".", "c", "o", "m", "\n">>,
    <<"s", "e", "r", "v", "e", "r", ".", "l", "o", "c", "a", "l", "\n">>, <<"e", "x", "a", "m", "p", "l", "e", ".", "c", "o", "m", " ">> }
\* str.upper(), character by character
UpperChar(c) ==
    IF \E i \in 1 .. 26 : LowerLetters[i] = c
      THEN UpperLetters[CHOOSE i \in 1 .. 26 : LowerLetters[i] = c]
      ELSE c
upper(s) == [i \in 1 .. Len(s) |-> UpperChar(s[i])]
\* str.capitalize() of a lower-case string
capitalize(s) == [i \in 1 .. Len(s) |-> IF i = 1 THEN UpperChar(s[i]) ELSE s[i]]

\* user@D for every personal domain D, written in lower case, in upper case and
\* capitalised
PersonalAddressInputs ==
    {PyStr(<<"u", "s", "e", "r", "@">> \o v) :
        v \in UNION {{d, upper(d), capitalize(d)} : d \in InitialPersonalDomains}}

EmailInputs ==
    {PyNone, PyStr(<<>>), PyStr(<<"n", "o", "t", "a", "n", "e", "m", "a", "i", "l">>), PyStr(<<"n", "o", "a", "t", ".", "c", "o", "m">>)} \cup
    {PyStr(l \o <<"@">> \o r) : l \in EmailLocals, r \in EmailRests} \cup
    PersonalAddressInputs

\* ------------------------------------------------------- research_contact

MIN_VALID_CACHE_LENGTH == 50
MIN_VALID_PAGE_CONTENT == 100

\* What memory.read_memory may hand back: nothing, or a text of some length
\* that does or does not contain "not found".
CachedChoices ==
    {[present |-> FALSE, len |-> 0, not_found |-> FALSE]} \cup
    {[present |-> TRUE, len |-> n, not_found |-> nf] :
        n \in {MIN_VALID_CACHE_LENGTH, MIN_VALID_CACHE_LENGTH + 1}, nf \in BOOLEAN}

\* What web.fetch may do: raise, or return a page of some length.
FetchChoices ==
    {[raises |-> TRUE, len |-> 0]} \cup
    {[raises |-> FALSE, len |-> n] :
        n \in {0, MIN_VALID_PAGE_CONTENT - 1, MIN_VALID_PAGE_CONTENT}}

\* What web.get_social_links may do: raise, or return a list of links.
SocialChoices == {"raises", "no_links", "links"}

ExternalCall(svc, arg) == [svc |-> svc, arg |-> arg]

rc_return(result) ==
    /\ rc_pc' = "done"
    /\ rc_result' = result

\* research_contact(email) is entered: `if not is_valid_email(email)`.
rc_enter(e) ==
    /\ rc_pc = "idle"
    /\ rc_email' = e
    /\ IF ~is_valid_email(e).b
         THEN /\ rc_return("invalid")
              /\ UNCHANGED rc_checks
         ELSE /\ rc_pc' = "read_memory"
              /\ rc_checks' = rc_checks \cup {"valid"}
              /\ UNCHANGED rc_result
    /\ UNCHANGED <<rc_domain, social_links, rc_calls, rc_log>>

\* `cached = memory.read_memory(...)` and the test of what came back.
rc_read_memory(c) ==
    /\ rc_pc = "read_memory"
    /\ rc_calls' = Append(rc_calls, ExternalCall("memory.read_memory", rc_email.s))
    /\ IF c.present /\ c.len > MIN_VALID_CACHE_LENGTH /\ ~c.not_found
         THEN rc_return("cached")
         ELSE rc_pc' = "extract_domain" /\ UNCHANGED rc_result
    /\ UNCHANGED <<rc_email, rc_domain, social_links, rc_checks, rc_log>>

\* `domain = extract_domain(email)` and `if not domain`.
rc_extract_domain ==
    /\ rc_pc = "extract_domain"
    /\ rc_domain' = extract_domain(rc_email)
    /\ IF rc_domain'.tag = "none" \/ rc_domain'.s = <<>>
         THEN rc_return("no_domain")
         ELSE rc_pc' = "check_personal" /\ UNCHANGED rc_result
    /\ UNCHANGED <<rc_email, social_links, rc_calls, rc_checks, rc_log>>

\* `if is_personal_email(email)`.
rc_check_personal ==
    /\ rc_pc = "check_personal"
    /\ IF is_personal_email(rc_email).b
         THEN /\ rc_return("personal")
              /\ UNCHANGED rc_checks
         ELSE /\ rc_pc' = "check_safe"
              /\ rc_checks' = rc_checks \cup {"not_personal"}
              /\ UNCHANGED rc_result
    /\ UNCHANGED <<rc_email, rc_domain, social_links, rc_calls, rc_log>>

\* What the step would do without `if not is_safe_domain(domain)`: the fetch
\* is next whatever the domain.
rc_check_safe_skipped ==
    /\ rc_pc = "check_safe"
    /\ rc_pc' = "fetch"
    /\ rc_checks' = rc_checks \cup {"safe"}
    /\ UNCHANGED <<rc_email, rc_domain, social_links, rc_calls, rc_result, rc_log>>

\* `if not is_safe_domain(domain)`.
rc_check_safe ==
    /\ rc_pc = "check_safe"
    /\ LET r == is_safe_domain(rc_domain)
       IN /\ rc_log' = rc_log \o r.log
          /\ IF ~r.out.b
               THEN /\ rc_return("blocked")
                    /\ UNCHANGED rc_checks
               ELSE /\ rc_pc' = "fetch"
                    /\ rc_checks' = rc_checks \cup {"safe"}
                    /\ UNCHANGED rc_result
    /\ UNCHANGED <<rc_email, rc_domain, social_links, rc_calls>>

\* What the step would do if web.fetch were given to retry_with_backoff: a
\* fetch that raises is made again, up to LLM_RETRY_ATTEMPTS times in all.
rc_fetch_with_retries(f) ==
    /\ rc_pc = "fetch"
    /\ rc_calls' = Append(rc_calls, ExternalCall("web.fetch", rc_domain.s))
    /\ IF f.raises
         THEN IF Len(SelectSeq(rc_calls', LAMBDA c : c.svc = "web.fetch")) < LLM_RETRY_ATTEMPTS
                THEN UNCHANGED <<rc_pc, rc_result>>
                ELSE rc_return("fetch_error")
       ELSE IF f.len = 0 \/ f.len < MIN_VALID_PAGE_CONTENT THEN rc_return("fetch_failed")
       ELSE rc_pc' = "social_links" /\ UNCHANGED rc_result
    /\ UNCHANGED <<rc_email, rc_domain, social_links, rc_checks, rc_log>>
\* `page_content = web.fetch(url)` with url = "https://" + domain, called
\* directly and once; an Exception it raises is reported at once.
rc_fetch(f) ==
    /\ rc_pc = "fetch"
    /\ rc_calls' = Append(rc_calls, ExternalCall("web.fetch", rc_domain.s))
    /\ IF f.raises THEN rc_return("fetch_error")
       ELSE IF f.len = 0 \/ f.len < MIN_VALID_PAGE_CONTENT THEN rc_return("fetch_failed")
       ELSE rc_pc' = "social_links" /\ UNCHANGED rc_result
    /\ UNCHANGED <<rc_email, rc_domain, social_links, rc_checks, rc_log>>

\* `social_links = web.get_social_links(url)`; a failure gives [].
rc_get_social_links(s) ==
    /\ rc_pc = "social_links"
    /\ rc_calls' = Append(rc_calls, ExternalCall("web.get_social_links", rc_domain.s))
    /\ social_links' = IF s = "links" THEN <<"link">> ELSE <<>>
    /\ rc_pc' = "analyze"
    /\ UNCHANGED <<rc_email, rc_domain, rc_checks, rc_result, rc_log>>

\* `intel = retry_with_backoff(llm_do, prompt, output=ContactIntel, temperature=0.3)`
\* with the default max_attempts and base_delay.
rc_analyze ==
    /\ rc_pc = "analyze"
    /\ LET call == CallSite(<<"prompt">>, NoOverrides,
                            {<<"output", "ContactIntel">>, <<"temperature", "0.3">>})
       IN /\ call_site' = call
          /\ rwb_enter(BoundMaxAttempts(call), BoundBaseDelay(call), ForwardedArgs(call))
    /\ rc_pc' = "await_llm"
    /\ UNCHANGED <<rc_email, rc_domain, social_links, rc_calls, rc_checks, rc_result, rc_log>>

\* retry_with_backoff has returned or raised.  Returned: the intelligence is
\* written to memory and returned, unless memory.write_memory raises.  An
\* Exception from either becomes "Analysis failed"; anything else leaves
\* research_contact.
rc_finish(write_ok) ==
    /\ rc_pc = "await_llm"
    /\ pc \in {"returned", "raised"}
    /\ IF pc = "returned"
         THEN /\ rc_calls' = Append(rc_calls, ExternalCall("memory.write_memory", rc_email.s))
              /\ rc_return(IF write_ok THEN "intel" ELSE "analysis_failed")
         ELSE /\ rc_return(IF outcome.exc.type \in ExceptionTypes
                             THEN "analysis_failed" ELSE "propagated")
              /\ UNCHANGED rc_calls
    /\ UNCHANGED <<rc_email, rc_domain, social_links, rc_checks, rc_log>>

\* ------------------------------------------------------------ set_env_flag

\* The callers of set_env_flag: threads of one process, or processes; each call
\* opens the file anew, so each has an open file description of its own.
Threads == {"t1", "t2"}

\* keys and values given by callers
EnvKeys == {<<"A">>, <<"A", "B">>}
EnvValues == {<<"1">>, <<"x", "=", "y">>, <<>>}

\* str.splitlines() of a text whose only line breaks are "\n"
RECURSIVE splitlines(_)
splitlines(text) ==
    IF text = <<>> THEN <<>>
    ELSE LET breaks == {i \in 1 .. Len(text) : text[i] = "\n"}
         IN IF breaks = {} THEN <<text>>
            ELSE LET b == CHOOSE i \in breaks : \A j \in breaks : i <= j
                 IN <<SubSeq(text, 1, b - 1)>> \o splitlines(SubSeq(text, b + 1, Len(text)))

\* "\n".join(lines) + "\n"
RECURSIVE join_lines(_)
join_lines(ls) ==
    IF ls = <<>> THEN <<"\n">>
    ELSE IF Len(ls) = 1 THEN ls[1] \o <<"\n">>
    ELSE ls[1] \o <<"\n">> \o join_lines(Tail(ls))

\* line.startswith(prefix)
startswith(line, prefix) ==
    Len(line) >= Len(prefix) /\ SubSeq(line, 1, Len(prefix)) = prefix

\* f"{key}={value}"
FlagLine(k, v) == k \o <<"=">> \o v

\* The loop over lines as it would be if it appended without looking for the key.
update_lines_append_only(ls, k, v) == Append(ls, FlagLine(k, v))
\* The loop over lines: the first line that starts with "key=" is replaced
\* (`break`), and if none does the new line is appended.
update_lines(ls, k, v) ==
    LET hits == {i \in 1 .. Len(ls) : startswith(ls[i], k \o <<"=">>)}
    IN IF hits = {} THEN Append(ls, FlagLine(k, v))
       ELSE LET i == CHOOSE h \in hits : \A j \in hits : h <= j
            IN [ls EXCEPT ![i] = FlagLine(k, v)]

\* os write of data at offset pos of a file that holds content (pos <= Len(content))
WriteAt(content, pos, data) ==
    SubSeq(content, 1, pos) \o data \o SubSeq(content, pos + Len(data) + 1, Len(content))

\* the env file: whether it exists, and its text
EnvFile(exists, content) == [exists |-> exists, content |-> content]

\* nothing is kept of the file a call found when other callers are at work,
\* since the file then changes under the call
NotKept == <<>>

\* a finished call, for the record; file is the env file as the call leaves it,
\* and the record says whether a call that ran alone left the file it found
EnvCall(t, k, v, os_error, result, file) ==
    [thread |-> t, key |-> k, value |-> v, os_error |-> os_error, result |-> result,
     file_as_before |-> (ef_before[t] = <<file>>)]

\* set_env_flag(key, value) is called by t, alone or with other callers at work.
ef_call(t, k, v, alone) ==
    /\ ef_pc[t] = "idle"
    /\ ef_started < MaxCalls
    /\ ef_started' = ef_started + 1
    /\ ef_before' = [ef_before EXCEPT
                        ![t] = IF alone THEN <<EnvFile(env_exists, env_content)>> ELSE NotKept]
    /\ ef_key' = [ef_key EXCEPT ![t] = k]
    /\ ef_value' = [ef_value EXCEPT ![t] = v]
    /\ ef_lines' = [ef_lines EXCEPT ![t] = <<>>]
    /\ ef_buffer' = [ef_buffer EXCEPT ![t] = <<>>]
    /\ ef_pos' = [ef_pos EXCEPT ![t] = 0]
    /\ ef_err' = [ef_err EXCEPT ![t] = FALSE]
    /\ ef_pc' = [ef_pc EXCEPT ![t] = "touch"]
    /\ UNCHANGED <<env_exists, env_content, flock_holder, ef_log, ef_history>>

\* The handler as it would be if it logged and raised the error again.
ef_except_reraise(t, file) ==
    /\ ef_log' = Append(ef_log, [level |-> "error", key |-> ef_key[t]])
    /\ ef_history' = Append(ef_history, EnvCall(t, ef_key[t], ef_value[t], TRUE, "OSError", file))
    /\ ef_before' = [ef_before EXCEPT ![t] = NotKept]
    /\ ef_pc' = [ef_pc EXCEPT ![t] = "idle"]
\* `except (IOError, OSError) as e`: logger.error(...), `return False`.
ef_except(t, file) ==
    /\ ef_log' = Append(ef_log, [level |-> "error", key |-> ef_key[t]])
    /\ ef_history' = Append(ef_history, EnvCall(t, ef_key[t], ef_value[t], TRUE, "False", file))
    /\ ef_before' = [ef_before EXCEPT ![t] = NotKept]
    /\ ef_pc' = [ef_pc EXCEPT ![t] = "idle"]

\* An OSError raised inside the inner `try`: the `finally` is next.
ef_to_finally(t) ==
    /\ ef_err' = [ef_err EXCEPT ![t] = TRUE]
    /\ ef_pc' = [ef_pc EXCEPT ![t] = "unlock"]

\* `env_path.touch(exist_ok=True)`
ef_touch(t, fails) ==
    /\ ef_pc[t] = "touch"
    /\ IF fails
         THEN ef_except(t, EnvFile(env_exists, env_content)) /\ UNCHANGED env_exists
         ELSE /\ env_exists' = TRUE
              /\ ef_pc' = [ef_pc EXCEPT ![t] = "open"]
              /\ UNCHANGED <<ef_before, ef_log, ef_history>>
    /\ UNCHANGED <<env_content, flock_holder, ef_started, ef_key, ef_value, ef_lines,
                   ef_buffer, ef_pos, ef_err>>

\* `open(env_path, "r+")`: a new open file description at offset 0
ef_open(t, fails) ==
    /\ ef_pc[t] = "open"
    /\ IF fails \/ ~env_exists
         THEN ef_except(t, EnvFile(env_exists, env_content)) /\ UNCHANGED ef_pos
         ELSE /\ ef_pos' = [ef_pos EXCEPT ![t] = 0]
              /\ ef_pc' = [ef_pc EXCEPT ![t] = "flock"]
              /\ UNCHANGED <<ef_before, ef_log, ef_history>>
    /\ UNCHANGED <<env_exists, env_content, flock_holder, ef_started, ef_key, ef_value,
                   ef_lines, ef_buffer, ef_err>>

\* `fcntl.flock(f.fileno(), fcntl.LOCK_EX)`: waits until no other description
\* holds the lock; an OSError here leaves the `with` block, which closes f.
ef_flock(t, fails) ==
    /\ ef_pc[t] = "flock"
    /\ IF fails
         THEN /\ ef_err' = [ef_err EXCEPT ![t] = TRUE]
              /\ ef_pc' = [ef_pc EXCEPT ![t] = "close"]
              /\ UNCHANGED flock_holder
         ELSE /\ flock_holder = "none"
              /\ flock_holder' = t
              /\ ef_pc' = [ef_pc EXCEPT ![t] = "read"]
              /\ UNCHANGED ef_err
    /\ UNCHANGED <<env_exists, env_content, ef_started, ef_before, ef_key, ef_value, ef_lines,
                   ef_buffer, ef_pos, ef_log, ef_history>>

\* `lines = f.read().splitlines()` and the loop that puts key=value into lines
ef_read(t, fails) ==
    /\ ef_pc[t] = "read"
    /\ IF fails
         THEN ef_to_finally(t) /\ UNCHANGED <<ef_lines, ef_pos>>
         ELSE /\ ef_lines' = [ef_lines EXCEPT
                                 ![t] = update_lines(splitlines(env_content), ef_key[t], ef_value[t])]
              /\ ef_pos' = [ef_pos EXCEPT ![t] = Len(env_content)]
              /\ ef_pc' = [ef_pc EXCEPT ![t] = "seek"]
              /\ UNCHANGED ef_err
    /\ UNCHANGED <<env_exists, env_content, flock_holder, ef_started, ef_before, ef_key, ef_value,
                   ef_buffer, ef_log, ef_history>>

\* `f.seek(0)`
ef_seek(t, fails) ==
    /\ ef_pc[t] = "seek"
    /\ IF fails
         THEN ef_to_finally(t) /\ UNCHANGED ef_pos
         ELSE /\ ef_pos' = [ef_pos EXCEPT ![t] = 0]
              /\ ef_pc' = [ef_pc EXCEPT ![t] = "truncate"]
              /\ UNCHANGED ef_err
    /\ UNCHANGED <<env_exists, env_content, flock_holder, ef_started, ef_before, ef_key, ef_value,
                   ef_lines, ef_buffer, ef_log, ef_history>>

\* `f.truncate()`: the file is cut at the current offset, at once
ef_truncate(t, fails) ==
    /\ ef_pc[t] = "truncate"
    /\ IF fails
         THEN ef_to_finally(t) /\ UNCHANGED env_content
         ELSE /\ env_content' = SubSeq(env_content, 1, ef_pos[t])
              /\ ef_pc' = [ef_pc EXCEPT ![t] = "write"]
              /\ UNCHANGED ef_err
    /\ UNCHANGED <<env_exists, flock_holder, ef_started, ef_before, ef_key, ef_value, ef_lines,
                   ef_buffer, ef_pos, ef_log, ef_history>>

\* `f.write("\n".join(lines) + "\n")`: the text goes into the buffer of f (a text
\* of a few lines is far below the buffer size); it reaches the file when f is
\* flushed, which nothing does before f is closed.
ef_write(t, fails) ==
    /\ ef_pc[t] = "write"
    /\ IF fails
         THEN ef_to_finally(t) /\ UNCHANGED ef_buffer
         ELSE /\ ef_buffer' = [ef_buffer EXCEPT ![t] = join_lines(ef_lines[t])]
              /\ ef_pc' = [ef_pc EXCEPT ![t] = "unlock"]
              /\ UNCHANGED ef_err
    /\ UNCHANGED <<env_exists, env_content, flock_holder, ef_started, ef_before, ef_key, ef_value,
                   ef_lines, ef_pos, ef_log, ef_history>>

\* `finally: fcntl.flock(f.fileno(), fcntl.LOCK_UN)`; the `with` block ends next
ef_unlock(t, fails) ==
    /\ ef_pc[t] = "unlock"
    /\ IF fails
         THEN /\ ef_err' = [ef_err EXCEPT ![t] = TRUE]
              /\ UNCHANGED flock_holder
         ELSE /\ flock_holder' = IF flock_holder = t THEN "none" ELSE flock_holder
              /\ UNCHANGED ef_err
    /\ ef_pc' = [ef_pc EXCEPT ![t] = "close"]
    /\ UNCHANGED <<env_exists, env_content, ef_started, ef_before, ef_key, ef_value, ef_lines,
                   ef_buffer, ef_pos, ef_log, ef_history>>

\* The end of `with open(...) as f`: f is closed, which flushes its buffer to
\* the file at the offset of f and drops a lock f still holds; then
\* `return True`, or the handler if an OSError is on its way or the flush fails
\* (a failed flush writes nothing here).
ef_close(t, fails) ==
    /\ ef_pc[t] = "close"
    /\ env_content' = IF fails \/ ef_buffer[t] = <<>> THEN env_content
                      ELSE WriteAt(env_content, ef_pos[t], ef_buffer[t])
    /\ flock_holder' = IF flock_holder = t THEN "none" ELSE flock_holder
    /\ ef_buffer' = [ef_buffer EXCEPT ![t] = <<>>]
    /\ IF fails \/ ef_err[t]
         THEN ef_except(t, EnvFile(env_exists, env_content'))
         ELSE /\ ef_history' = Append(ef_history,
                                      EnvCall(t, ef_key[t], ef_value[t], FALSE, "True",
                                              EnvFile(env_exists, env_content')))
              /\ ef_before' = [ef_before EXCEPT ![t] = NotKept]
              /\ ef_pc' = [ef_pc EXCEPT ![t] = "idle"]
              /\ UNCHANGED ef_log
    /\ UNCHANGED <<env_exists, ef_started, ef_key, ef_value, ef_lines, ef_pos, ef_err>>

\* --------------------------------------------------- require_send_approval

MAX_BODY_PREVIEW_LENGTH == 200

\* text[:k], the Python slice; a negative k counts from the end
PySliceTo(text, k) ==
    IF k >= 0 THEN SubSeq(text, 1, IF k < Len(text) THEN k ELSE Len(text))
    ELSE SubSeq(text, 1, IF Len(text) + k > 0 THEN Len(text) + k ELSE 0)

\* safe_truncate(text, max_length, suffix); len(None) raises TypeError
safe_truncate(text, max_length, suffix) ==
    IF text.tag = "none" THEN PyRaise("TypeError")
    ELSE IF Len(text.s) <= max_length THEN text
    ELSE PyStr(PySliceTo(text.s, max_length - Len(suffix)) \o suffix)

\* the tool names the handler asks about
SendToolNames == {"send_email", "reply_to_email", "Gmail.send_email", "Gmail.reply_to_email"}
\* names of other tools, and names that only look like the four
OtherToolNames == {"", "list_emails", "research_contact", "Send_Email", "gmail.send_email",
                   "send_email_draft", "Outlook.send_email"}

\* a text of n characters
TextOfLength(n) == [i \in 1 .. n |-> "x"]

\* A dict of tool arguments: the keys it holds and the values of body and
\* message (to and subject only appear in the preview).
ToolArgs(keys, body, message) == [keys |-> keys, body |-> body, message |-> message]
ArgsChoices ==
    {ToolArgs({}, PyNone, PyNone),
     ToolArgs({"to", "subject", "message"}, PyNone, PyStr(<<"h", "i">>)),
     ToolArgs({"to", "subject", "body"}, PyNone, PyNone)} \cup
    {ToolArgs({"to", "subject", "body"}, PyStr(TextOfLength(n)), PyNone) :
        n \in {0, 2, MAX_BODY_PREVIEW_LENGTH, MAX_BODY_PREVIEW_LENGTH + 1}}

\* agent.current_session["pending_tool"], or its absence
PendingTool(present, name, args) == [present |-> present, name |-> name, args |-> args]
NoPendingTool == PendingTool(FALSE, "", ToolArgs({}, PyNone, PyNone))
PendingChoices ==
    {NoPendingTool} \cup
    {PendingTool(TRUE, n, a) : n \in SendToolNames \cup OtherToolNames, a \in ArgsChoices}

\* `pending.get("name", "")`
ToolName(pending) == IF pending.present THEN pending.name ELSE ""
\* `args.get("body", args.get("message", ""))`
BodyOf(args) ==
    IF "body" \in args.keys THEN args.body
    ELSE IF "message" \in args.keys THEN args.message
    ELSE PyStr(<<>>)

\* What the user types at the prompt, and the end of input (None).
UserInputs ==
    {PyNone, PyStr(<<>>), PyStr(<<"y">>), PyStr(<<"Y">>), PyStr(<<" ", "y", " ">>), PyStr(<<"n">>), PyStr(<<"N">>),
     PyStr(<<"y", "e", "s">>), PyStr(<<" ">>)}

\* `default=True`, the other default a Confirm may be given
ConfirmDefaultTrue == TRUE
\* Confirm.ask("Send this email?", default=False)
ConfirmDefault == FALSE

\* Confirm.ask on one line of input: "answer" with the value returned,
\* "invalid" when the prompt is shown again, "eof" when input has ended.
Confirm_ask(input) ==
    IF input.tag = "none" THEN [kind |-> "eof", value |-> FALSE]
    ELSE IF input.s = <<>> THEN [kind |-> "answer", value |-> ConfirmDefault]
    ELSE IF strip(lower(input.s)) \notin {<<"y">>, <<"n">>} THEN [kind |-> "invalid", value |-> FALSE]
    ELSE [kind |-> "answer", value |-> strip(lower(input.s)) = <<"y">>]

ap_done(how) ==
    /\ ap_pc' = "done"
    /\ ap_outcome' = how

\* require_send_approval(agent) is called before a tool: the pending tool is
\* looked up and its name tested against the list.
ap_enter(p) ==
    /\ ap_pc = "idle"
    /\ pending_tool' = p
    /\ IF ToolName(p) \in SendToolNames
         THEN ap_pc' = "preview" /\ UNCHANGED ap_outcome
         ELSE ap_done("returned")
    /\ UNCHANGED <<ap_console, ap_inputs, tool_ran>>

\* The preview: `safe_truncate(body, MAX_BODY_PREVIEW_LENGTH)` and the panel.
ap_preview ==
    /\ ap_pc = "preview"
    /\ LET body_preview == safe_truncate(BodyOf(pending_tool.args), MAX_BODY_PREVIEW_LENGTH, <<".", ".", ".">>)
       IN IF body_preview.tag = "raise"
            THEN ap_done(body_preview.exc) /\ UNCHANGED ap_console
            ELSE /\ ap_console' = Append(ap_console,
                                         [title |-> ToolName(pending_tool), body |-> Len(body_preview.s)])
                 /\ ap_pc' = "ask"
                 /\ UNCHANGED ap_outcome
    /\ UNCHANGED <<pending_tool, ap_inputs, tool_ran>>

\* `confirmed = Confirm.ask(...)` reads a line, and another one after an answer
\* it does not accept; `if not confirmed: raise RuntimeError(...)`.
ap_ask(input) ==
    /\ ap_pc = "ask"
    /\ ap_inputs' = Append(ap_inputs, input)
    /\ LET r == Confirm_ask(input)
       IN IF r.kind = "eof" THEN ap_done("EOFError")
          ELSE IF r.kind = "invalid"
            THEN /\ Len(SelectSeq(ap_inputs, LAMBDA i : Confirm_ask(i).kind = "invalid")) < MaxInvalidAnswers
                 /\ UNCHANGED <<ap_pc, ap_outcome>>
          ELSE IF r.value THEN ap_done("returned")
          ELSE ap_done("RuntimeError")
    /\ UNCHANGED <<pending_tool, ap_console, tool_ran>>

\* The handler is registered with before_each_tool: the tool is executed after
\* the handler has returned, and not when it raised.
ap_tool_runs ==
    /\ ap_pc = "done"
    /\ ap_outcome = "returned"
    /\ ~tool_ran
    /\ tool_ran' = TRUE
    /\ UNCHANGED <<ap_pc, pending_tool, ap_console, ap_inputs, ap_outcome>>

\* ------------------------------------------- get_agent and the agent singletons

\* `with _lock:` on entry: threading.Lock.acquire() waits until the lock is free
acquire_without_waiting(t) == _lock' = t
lock_acquire(t) == _lock = "free" /\ _lock' = t

\* `with _lock:` on exit, by return or by exception
lock_release == _lock' = "free"

\* the functions that hand out a singleton, and the Agent name each one builds
SingletonGetters == {"get_agent", "_get_init_crm_agent"}
AgentFunctions == SingletonGetters \cup {"reset_agent"}
AgentName(fn) == IF fn = "get_agent" THEN "email-agent" ELSE "crm-init"

\* the module global a getter reads and assigns (0 stands for None, n > 0 for
\* the n-th Agent object constructed)
Singleton(fn) == IF fn = "get_agent" THEN _agent ELSE _init_crm_agent

\* a call that has ended: what it returned (0 for None) or that it raised, and
\* how many reset_agent calls had cleared the globals by then
AgentCall(t, fn, result, raised) ==
    [thread |-> t, fn |-> fn, result |-> result, raised |-> raised, resets |-> ag_resets]

ag_end(t, result, raised) ==
    /\ ag_history' = Append(ag_history, AgentCall(t, ag_fn[t], result, raised))
    /\ ag_pc' = [ag_pc EXCEPT ![t] = "idle"]

\* a thread calls get_agent(), _get_init_crm_agent() or reset_agent()
ag_call(t, fn) ==
    /\ ag_pc[t] = "idle"
    /\ ag_started < MaxAgentCalls
    /\ ag_started' = ag_started + 1
    /\ ag_fn' = [ag_fn EXCEPT ![t] = fn]
    /\ ag_new' = [ag_new EXCEPT ![t] = 0]
    /\ ag_pc' = [ag_pc EXCEPT ![t] = "with_lock"]
    /\ UNCHANGED <<_agent, _init_crm_agent, _lock, ag_objects, ag_resets, ag_history>>

\* with _lock:
ag_enter_lock(t) ==
    /\ ag_pc[t] = "with_lock"
    /\ lock_acquire(t)
    /\ ag_pc' = [ag_pc EXCEPT ![t] = IF ag_fn[t] = "reset_agent" THEN "clear" ELSE "test"]
    /\ UNCHANGED <<_agent, _init_crm_agent, ag_fn, ag_new, ag_objects, ag_resets, ag_started, ag_history>>

\* if _agent is None:   /   if _init_crm_agent is None:
ag_test(t) ==
    /\ ag_pc[t] = "test"
    /\ ag_pc' = [ag_pc EXCEPT ![t] = IF Singleton(ag_fn[t]) = 0 THEN "construct" ELSE "return"]
    /\ UNCHANGED <<_agent, _init_crm_agent, _lock, ag_fn, ag_new, ag_objects, ag_resets, ag_started, ag_history>>

\* Agent(name=..., ...): the constructor returns a new object, or raises; an
\* exception leaves the with block, which releases the lock, and the global
\* keeps the value it had
ag_construct(t, raises) ==
    /\ ag_pc[t] = "construct"
    /\ IF raises
         THEN /\ lock_release
              /\ ag_end(t, 0, TRUE)
              /\ UNCHANGED <<ag_new, ag_objects>>
         ELSE /\ ag_objects' = Append(ag_objects, [name |-> AgentName(ag_fn[t]), resets |-> ag_resets])
              /\ ag_new' = [ag_new EXCEPT ![t] = Len(ag_objects) + 1]
              /\ ag_pc' = [ag_pc EXCEPT ![t] = "assign"]
              /\ UNCHANGED <<_lock, ag_history>>
    /\ UNCHANGED <<_agent, _init_crm_agent, ag_fn, ag_resets, ag_started>>

\* _agent = <the new object>   /   _init_crm_agent = <the new object>
ag_assign(t) ==
    /\ ag_pc[t] = "assign"
    /\ IF ag_fn[t] = "get_agent"
         THEN _agent' = ag_new[t] /\ UNCHANGED _init_crm_agent
         ELSE _init_crm_agent' = ag_new[t] /\ UNCHANGED _agent
    /\ ag_pc' = [ag_pc EXCEPT ![t] = "return"]
    /\ UNCHANGED <<_lock, ag_fn, ag_new, ag_objects, ag_resets, ag_started, ag_history>>

\* return _agent   /   return _init_crm_agent   (the global is read, then the
\* with block is left)
ag_return(t) ==
    /\ ag_pc[t] = "return"
    /\ lock_release
    /\ ag_end(t, Singleton(ag_fn[t]), FALSE)
    /\ UNCHANGED <<_agent, _init_crm_agent, ag_fn, ag_new, ag_objects, ag_resets, ag_started>>

\* reset_agent: _agent = None; _init_crm_agent = None
ag_clear(t) ==
    /\ ag_pc[t] = "clear"
    /\ _agent' = 0
    /\ _init_crm_agent' = 0
    /\ ag_resets' = ag_resets + 1
    /\ ag_pc' = [ag_pc EXCEPT ![t] = "leave"]
    /\ UNCHANGED <<_lock, ag_fn, ag_new, ag_objects, ag_started, ag_history>>

\* reset_agent leaves its with block and returns None
ag_leave(t) ==
    /\ ag_pc[t] = "leave"
    /\ lock_release
    /\ ag_end(t, 0, FALSE)
    /\ UNCHANGED <<_agent, _init_crm_agent, ag_fn, ag_new, ag_objects, ag_resets, ag_started>>

\* --------------------------------------------- helpers called one at a time

\* one call of a helper: the arguments and what came back
util_call(fn, args, out) ==
    /\ util_fn = "none"
    /\ util_fn' = fn
    /\ util_args' = args
    /\ util_out' = out

call_safe_truncate(text, max_length, suffix) ==
    util_call("safe_truncate", [text |-> text, max_length |-> max_length, suffix |-> suffix],
              safe_truncate(text, max_length, suffix))

\* the texts given to safe_truncate: None, and "abc..." of every length up to MaxTextLen
TruncateTexts ==
    {PyNone} \cup {PyStr([i \in 1 .. n |-> LowerLetters[((i - 1) % 26) + 1]]) : n \in 0 .. MaxTextLen}
\* the values of max_length
TruncateLengths == -1 .. MaxTextLen + 1
\* the values of suffix: the default "...", those of the tests, and a longer one
TruncateSuffixes == {<<".", ".", ".">>, <<>>, <<".">>, <<">", ">">>, <<".", ".", ".", ".">>}

\* ------------------------------------------------------- parse_memory_line

\* `sub in s` for strings
py_contains(sub, s) ==
    \E i \in 1 .. Len(s) - Len(sub) + 1 : SubSeq(s, i, i + Len(sub) - 1) = sub

\* s.split(sep, maxsplit) for a one-character sep: at most maxsplit splits,
\* made from the left; a negative maxsplit puts no limit
RECURSIVE py_split(_, _, _)
py_split(s, sep, maxsplit) ==
    LET seps == {i \in 1 .. Len(s) : s[i] = sep}
    IN IF maxsplit = 0 \/ seps = {} THEN <<s>>
       ELSE LET p == CHOOSE i \in seps : \A j \in seps : i <= j
            IN <<SubSeq(s, 1, p - 1)>> \o py_split(SubSeq(s, p + 1, Len(s)), sep, maxsplit - 1)

\* `parts = line.split("|", maxsplit=2)`, and what it would be without maxsplit
split_pipes_unlimited(line) == py_split(line, "|", -1)
split_pipes(line) == py_split(line, "|", 2)

\* what parse_memory_line returns: None, or the tuple (key, date_str, notes)
ParsedNone == [tag |-> "none", key |-> PyNone, date |-> PyNone, notes |-> PyNone]
Parsed(key, date, notes) == [tag |-> "tuple", key |-> key, date |-> date, notes |-> notes]

\* parse_memory_line(line)
parse_memory_line(line) ==
    IF line.tag = "none" \/ line.s = <<>> \/ ~py_contains(<<"c", "o", "n", "t", "a", "c", "t", ":">>, lower(line.s))
      THEN ParsedNone
    ELSE LET parts == split_pipes(line.s)
         IN IF Len(parts) < 2 THEN ParsedNone
            ELSE Parsed(PyStr(strip(parts[1])),
                        PyStr(strip(parts[2])),
                        IF Len(parts) > 2 THEN PyStr(strip(parts[3])) ELSE PyNone)

call_parse_memory_line(line) ==
    util_call("parse_memory_line", [line |-> line], parse_memory_line(line))

\* Memory lines are assembled as key, key|date or key|date|notes; some keys
\* do not hold contact:, some notes hold further "|" or the only contact:.
MemoryKeys == {<<"c", "o", "n", "t", "a", "c", "t", ":", "a">>, <<" ", "C", "o", "n", "t", "a", "c", "t", ":", "a", "\t">>, <<"C", "O", "N", "T", "A", "C", "T", ":">>, <<"n", "o", "t", "e">>, <<>>, <<" ">>}
MemoryDates == {<<>>, <<" ", "d", " ">>, <<"2", "0", "2", "6">>}
MemoryNotes == {<<>>, <<" ", "n", " ">>, <<"n", "|", "m">>, <<" ", "a", " ", "|", " ", "b", " ", "|">>, <<"c", "o", "n", "t", "a", "c", "t", ":">>}
MemoryLines ==
    {PyNone} \cup {PyStr(k) : k \in MemoryKeys}
    \cup {PyStr(k \o <<"|">> \o d) : k \in MemoryKeys, d \in MemoryDates}
    \cup {PyStr(k \o <<"|">> \o d \o <<"|">> \o n) : k \in MemoryKeys, d \in MemoryDates, n \in MemoryNotes}

\* ------------------------------------------------- email insights and its cache

INSIGHTS_CACHE_TTL_SECONDS == 300
\* `len(last_result) < 50`
MIN_RESULT_LENGTH == 50

\* _insights_cache = {}
EmptyCache == [k \in {} |-> 0]

\* `time.time() - timestamp < INSIGHTS_CACHE_TTL_SECONDS`, and the test as it
\* would be with <=
CacheFreshInclusive(age) == age <= INSIGHTS_CACHE_TTL_SECONDS
CacheFresh(age) == age < INSIGHTS_CACHE_TTL_SECONDS

\* `del _insights_cache[cache_key]`
CacheDel(cache, key) == [k \in DOMAIN cache \ {key} |-> cache[k]]
\* `_insights_cache[cache_key] = (insight, time.time())`
CacheSet(cache, key, insight, timestamp) ==
    [k \in DOMAIN cache \cup {key} |->
        IF k = key THEN [insight |-> insight, timestamp |-> timestamp] ELSE cache[k]]

\* agent.current_session["last_result"]: the text that last_result[:MAX_EMAIL_PREVIEW_LENGTH]
\* keeps of it (prefix), and its length; "" stands for a missing or empty result
ToolResult(prefix, len) == [prefix |-> prefix, len |-> len]
NoResult == ToolResult("", 0)
ToolResults ==
    {NoResult, ToolResult("mail1", MIN_RESULT_LENGTH - 1),
     ToolResult("mail1", MIN_RESULT_LENGTH), ToolResult("mail2", MIN_RESULT_LENGTH)}
\* agent.current_session["last_tool"]["name"]
LastToolNames == {<<"r", "e", "a", "d", "_", "e", "m", "a", "i", "l">>, <<"C", "h", "e", "c", "k", "_", "I", "N", "B", "O", "X">>, <<"s", "e", "n", "d", "_", "e", "m", "a", "i", "l">>}

\* _get_cache_key(content): the md5 digest of the text, one digest per text
get_cache_key(content) == content

\* `"read" not in tool_name.lower() and "inbox" not in tool_name.lower()`
NotAReadTool(tool_name) ==
    /\ ~py_contains(<<"r", "e", "a", "d">>, lower(tool_name))
    /\ ~py_contains(<<"i", "n", "b", "o", "x">>, lower(tool_name))

\* a handler call: the text it analyses (none when it returns early), the
\* cache when it started, what the lookup found, and what it did
InsightCall(result, cache) ==
    [key |-> get_cache_key(result.prefix), result |-> "none",
     cache_before |-> cache, present |-> FALSE, age |-> -1,
     cache_looked |-> cache, llm_called |-> FALSE, llm_returned |-> FALSE,
     warnings |-> 0, displayed |-> FALSE, stored_at |-> -1, cache_after |-> cache]
NoInsightCall == InsightCall(NoResult, EmptyCache)

\* the handler call ends; it has made its last change to the cache
ei_end(call, result) ==
    /\ ei_history' = Append(ei_history,
                            [call EXCEPT !.result = result,
                                         !.cache_after = _insights_cache])
    /\ ei_call' = NoInsightCall
    /\ ei_pc' = "idle"

\* add_email_insights(agent) is entered: the two early returns
ei_enter(tool_name, result) ==
    /\ ei_pc = "idle"
    /\ ei_started < MaxInsightCalls
    /\ ei_started' = ei_started + 1
    /\ IF NotAReadTool(tool_name) \/ result.len = 0 \/ result.len < MIN_RESULT_LENGTH
         THEN ei_end(InsightCall(NoResult, _insights_cache), "skipped")
         ELSE /\ ei_call' = InsightCall(result, _insights_cache)
              /\ ei_pc' = "lookup"
              /\ UNCHANGED ei_history
    /\ UNCHANGED <<_insights_cache, now, ticks>>

\* `cached = _get_cached_insight(content_to_analyze)` and `if cached:`
ei_lookup ==
    /\ ei_pc = "lookup"
    /\ LET key == ei_call.key
           present == key \in DOMAIN _insights_cache
           age == IF present THEN now - _insights_cache[key].timestamp ELSE -1
           looked == [ei_call EXCEPT !.present = present, !.age = age]
       IN IF present /\ CacheFresh(age)
            THEN /\ UNCHANGED _insights_cache
                 /\ ei_end([looked EXCEPT !.displayed = TRUE], "hit")
            ELSE /\ _insights_cache' = IF present THEN CacheDel(_insights_cache, key)
                                       ELSE _insights_cache
                 /\ ei_call' = [looked EXCEPT !.cache_looked = _insights_cache']
                 /\ ei_pc' = "analyze"
                 /\ UNCHANGED ei_history
    /\ UNCHANGED <<now, ticks, ei_started>>

\* `insight = retry_with_backoff(llm_do, f"Analyze ...", output=EmailInsight,
\* model=FAST_MODEL, temperature=0.3)` is entered
ei_analyze ==
    /\ ei_pc = "analyze"
    /\ LET call == CallSite(<<"prompt">>, NoOverrides,
                            {<<"output", "EmailInsight">>, <<"model", "FAST_MODEL">>,
                             <<"temperature", "0.3">>})
       IN /\ call_site' = call
          /\ rwb_enter(BoundMaxAttempts(call), BoundBaseDelay(call), ForwardedArgs(call))
    /\ ei_pc' = "await_llm"
    /\ UNCHANGED <<_insights_cache, now, ticks, ei_call, ei_started, ei_history>>

\* retry_with_backoff has returned or raised.  Returned: the insight is stored
\* with the time of the store, and displayed.  An Exception is logged as a
\* warning and the handler returns; anything else leaves the handler.  The
\* locals of the finished retry_with_backoff call are gone.
ei_finish ==
    /\ ei_pc = "await_llm"
    /\ pc \in {"returned", "raised"}
    /\ LET made == [ei_call EXCEPT !.llm_called = (\E i \in 1 .. Len(trace) : trace[i].ev = "call"),
                                   !.llm_returned = (pc = "returned")]
       IN IF pc = "returned"
            THEN /\ _insights_cache' = CacheSet(_insights_cache, ei_call.key, outcome.value, now)
                 /\ ei_history' = Append(ei_history,
                        [made EXCEPT !.displayed = TRUE, !.result = "analyzed",
                                     !.stored_at = now, !.cache_after = _insights_cache'])
                 /\ ei_call' = NoInsightCall
                 /\ ei_pc' = "idle"
            ELSE /\ UNCHANGED _insights_cache
                 /\ IF outcome.exc.type \in ExceptionTypes
                      THEN ei_end([made EXCEPT !.warnings = 1], "failed")
                      ELSE ei_end(made, "propagated")
    /\ pc' = "idle"
    /\ trace' = <<>>
    /\ outcome' = NoOutcome
    /\ attempt' = 0
    /\ last_exception' = NoException
    /\ UNCHANGED <<max_attempts, base_delay, func_args, call_site, now, ticks, ei_started>>

\* time passes: by a second, or by a second less than the lifetime of an entry
ClockSteps == {1, INSIGHTS_CACHE_TTL_SECONDS - 1}
clock_tick(d) ==
    /\ ticks < MaxTicks
    /\ ticks' = ticks + 1
    /\ now' = now + d
    /\ UNCHANGED <<_insights_cache, ei_pc, ei_call, ei_started, ei_history>>

\* what llm_do returns when given output=EmailInsight: an EmailInsight
InsightValues == {"success"}
\* what llm_do raises: an Exception, or something that is not one
InsightRaises == {"ValueError", "KeyboardInterrupt"}

\* ------------------------------------------------------------ specifications

Init ==
    /\ pc = "idle"
    /\ max_attempts = LLM_RETRY_ATTEMPTS
    /\ base_delay = LLM_RETRY_DELAY
    /\ func_args = NoArgs
    /\ attempt = 0
    /\ last_exception = NoException
    /\ trace = <<>>
    /\ outcome = NoOutcome
    /\ call_site = NoCall
    /\ BLOCKED_DOMAIN_PATTERNS = InitialBlockedPatterns
    /\ PERSONAL_EMAIL_DOMAINS = InitialPersonalDomains
    /\ cls_fn = "none"
    /\ cls_arg = PyNone
    /\ cls_out = PyNone
    /\ caplog = <<>>
    /\ rc_pc = "idle"
    /\ rc_email = PyNone
    /\ rc_domain = PyNone
    /\ social_links = <<>>
    /\ rc_calls = <<>>
    /\ rc_checks = {}
    /\ rc_result = "none"
    /\ rc_log = <<>>
    /\ env_exists = FALSE
    /\ env_content = <<>>
    /\ flock_holder = "none"
    /\ ef_pc = [t \in Threads |-> "idle"]
    /\ ef_key = [t \in Threads |-> <<>>]
    /\ ef_value = [t \in Threads |-> <<>>]
    /\ ef_lines = [t \in Threads |-> <<>>]
    /\ ef_buffer = [t \in Threads |-> <<>>]
    /\ ef_pos = [t \in Threads |-> 0]
    /\ ef_err = [t \in Threads |-> FALSE]
    /\ ef_started = 0
    /\ ef_before = [t \in Threads |-> NotKept]
    /\ ef_log = <<>>
    /\ ef_history = <<>>
    /\ ap_pc = "idle"
    /\ pending_tool = NoPendingTool
    /\ ap_console = <<>>
    /\ ap_inputs = <<>>
    /\ ap_outcome = "none"
    /\ tool_ran = FALSE
    /\ _agent = 0
    /\ _init_crm_agent = 0
    /\ _lock = "free"
    /\ ag_pc = [t \in Threads |-> "idle"]
    /\ ag_fn = [t \in Threads |-> "none"]
    /\ ag_new = [t \in Threads |-> 0]
    /\ ag_objects = <<>>
    /\ ag_resets = 0
    /\ ag_started = 0
    /\ ag_history = <<>>
    /\ util_fn = "none"
    /\ util_args = <<>>
    /\ util_out = PyNone
    /\ _insights_cache = EmptyCache
    /\ now = 0
    /\ ticks = 0
    /\ ei_pc = "idle"
    /\ ei_call = NoInsightCall
    /\ ei_started = 0
    /\ ei_history = <<>>

\* The keywords max_attempts and base_delay a caller may give: none, one or both.
OverrideChoices ==
    {o \in UNION {[S -> -1 .. (IF MaxAttempts > MaxBaseDelay THEN MaxAttempts ELSE MaxBaseDelay)] :
                      S \in SUBSET {"max_attempts", "base_delay"}} :
        /\ "max_attempts" \in DOMAIN o => o["max_attempts"] \in -1 .. MaxAttempts
        /\ "base_delay" \in DOMAIN o => o["base_delay"] \in 0 .. MaxBaseDelay}

\* A caller invokes retry_with_backoff with arguments of its choice.
CallRetry ==
    \E o \in OverrideChoices, fargs \in ArgChoices :
        LET call == CallSite(fargs.args, o, fargs.kwargs)
        IN /\ call_site' = call
           /\ rwb_enter(BoundMaxAttempts(call), BoundBaseDelay(call), ForwardedArgs(call))

NextRetry ==
    \/ CallRetry /\ UNCHANGED <<config_vars, cls_vars, rc_vars, env_vars, ap_vars, ag_vars, util_vars, ei_vars>>
    \/ (\E v \in ReturnValues : rwb_attempt_returns(v)) /\ UNCHANGED <<config_vars, cls_vars, rc_vars, env_vars, ap_vars, ag_vars, util_vars, ei_vars>>
    \/ (\E t \in RaisableTypes : rwb_attempt_raises(t)) /\ UNCHANGED <<config_vars, cls_vars, rc_vars, env_vars, ap_vars, ag_vars, util_vars, ei_vars>>
    \/ rwb_sleep /\ UNCHANGED <<config_vars, cls_vars, rc_vars, env_vars, ap_vars, ag_vars, util_vars, ei_vars>>
    \/ rwb_raise_last /\ UNCHANGED <<config_vars, cls_vars, rc_vars, env_vars, ap_vars, ag_vars, util_vars, ei_vars>>

SpecRetry == Init /\ [][NextRetry]_vars

\* A caller or a test calls one classifier function on one input.
NextClassify ==
    \/ cls_fn = "none" /\ \E e \in EmailInputs : call_is_valid_email(e) /\ UNCHANGED <<rwb_vars, rc_vars, env_vars, ap_vars, ag_vars, util_vars, ei_vars>>
    \/ cls_fn = "none" /\ \E e \in EmailInputs : call_is_personal_email(e) /\ UNCHANGED <<rwb_vars, rc_vars, env_vars, ap_vars, ag_vars, util_vars, ei_vars>>
    \/ cls_fn = "none" /\ \E e \in EmailInputs : call_extract_domain(e) /\ UNCHANGED <<rwb_vars, rc_vars, env_vars, ap_vars, ag_vars, util_vars, ei_vars>>
    \/ cls_fn = "none" /\ \E d \in DomainInputs : call_is_safe_domain(d) /\ UNCHANGED <<rwb_vars, rc_vars, env_vars, ap_vars, ag_vars, util_vars, ei_vars>>

SpecClassify == Init /\ [][NextClassify]_vars

\* The agent calls the research_contact tool on an address; memory, the web
\* and the LLM answer as they will.
NextResearch ==
    \/ (\E e \in EmailInputs : rc_enter(e)) /\ UNCHANGED <<rwb_vars, config_vars, cls_vars, env_vars, ap_vars, ag_vars, util_vars, ei_vars>>
    \/ (\E c \in CachedChoices : rc_read_memory(c)) /\ UNCHANGED <<rwb_vars, config_vars, cls_vars, env_vars, ap_vars, ag_vars, util_vars, ei_vars>>
    \/ rc_extract_domain /\ UNCHANGED <<rwb_vars, config_vars, cls_vars, env_vars, ap_vars, ag_vars, util_vars, ei_vars>>
    \/ rc_check_personal /\ UNCHANGED <<rwb_vars, config_vars, cls_vars, env_vars, ap_vars, ag_vars, util_vars, ei_vars>>
    \/ rc_check_safe /\ UNCHANGED <<rwb_vars, config_vars, cls_vars, env_vars, ap_vars, ag_vars, util_vars, ei_vars>>
    \/ (\E f \in FetchChoices : rc_fetch(f)) /\ UNCHANGED <<rwb_vars, config_vars, cls_vars, env_vars, ap_vars, ag_vars, util_vars, ei_vars>>
    \/ (\E l \in SocialChoices : rc_get_social_links(l)) /\ UNCHANGED <<rwb_vars, config_vars, cls_vars, env_vars, ap_vars, ag_vars, util_vars, ei_vars>>
    \/ rc_analyze /\ UNCHANGED <<trace, outcome, config_vars, cls_vars, env_vars, ap_vars, ag_vars, util_vars, ei_vars>>
    \/ (\E v \in ReturnValues : rwb_attempt_returns(v)) /\ UNCHANGED <<config_vars, cls_vars, rc_vars, env_vars, ap_vars, ag_vars, util_vars, ei_vars>>
    \/ (\E t \in RaisableTypes : rwb_attempt_raises(t)) /\ UNCHANGED <<config_vars, cls_vars, rc_vars, env_vars, ap_vars, ag_vars, util_vars, ei_vars>>
    \/ rwb_sleep /\ UNCHANGED <<config_vars, cls_vars, rc_vars, env_vars, ap_vars, ag_vars, util_vars, ei_vars>>
    \/ rwb_raise_last /\ UNCHANGED <<config_vars, cls_vars, rc_vars, env_vars, ap_vars, ag_vars, util_vars, ei_vars>>
    \/ (\E w \in BOOLEAN : rc_finish(w)) /\ UNCHANGED <<rwb_vars, config_vars, cls_vars, env_vars, ap_vars, ag_vars, util_vars, ei_vars>>

SpecResearch == Init /\ [][NextResearch]_vars

\* set_env_flag as the callers in callers run it: every step of a call, taken
\* by one of them, with the file system free to fail any step.
NextEnvFlag(callers) ==
    \/ (\E t \in callers, k \in EnvKeys, v \in EnvValues : ef_call(t, k, v, callers = {t})) /\ UNCHANGED <<rwb_vars, config_vars, cls_vars, rc_vars, ap_vars, ag_vars, util_vars, ei_vars>>
    \/ (\E t \in callers, fails \in BOOLEAN : ef_touch(t, fails)) /\ UNCHANGED <<rwb_vars, config_vars, cls_vars, rc_vars, ap_vars, ag_vars, util_vars, ei_vars>>
    \/ (\E t \in callers, fails \in BOOLEAN : ef_open(t, fails)) /\ UNCHANGED <<rwb_vars, config_vars, cls_vars, rc_vars, ap_vars, ag_vars, util_vars, ei_vars>>
    \/ (\E t \in callers, fails \in BOOLEAN : ef_flock(t, fails)) /\ UNCHANGED <<rwb_vars, config_vars, cls_vars, rc_vars, ap_vars, ag_vars, util_vars, ei_vars>>
    \/ (\E t \in callers, fails \in BOOLEAN : ef_read(t, fails)) /\ UNCHANGED <<rwb_vars, config_vars, cls_vars, rc_vars, ap_vars, ag_vars, util_vars, ei_vars>>
    \/ (\E t \in callers, fails \in BOOLEAN : ef_seek(t, fails)) /\ UNCHANGED <<rwb_vars, config_vars, cls_vars, rc_vars, ap_vars, ag_vars, util_vars, ei_vars>>
    \/ (\E t \in callers, fails \in BOOLEAN : ef_truncate(t, fails)) /\ UNCHANGED <<rwb_vars, config_vars, cls_vars, rc_vars, ap_vars, ag_vars, util_vars, ei_vars>>
    \/ (\E t \in callers, fails \in BOOLEAN : ef_write(t, fails)) /\ UNCHANGED <<rwb_vars, config_vars, cls_vars, rc_vars, ap_vars, ag_vars, util_vars, ei_vars>>
    \/ (\E t \in callers, fails \in BOOLEAN : ef_unlock(t, fails)) /\ UNCHANGED <<rwb_vars, config_vars, cls_vars, rc_vars, ap_vars, ag_vars, util_vars, ei_vars>>
    \/ (\E t \in callers, fails \in BOOLEAN : ef_close(t, fails)) /\ UNCHANGED <<rwb_vars, config_vars, cls_vars, rc_vars, ap_vars, ag_vars, util_vars, ei_vars>>

\* One caller: each call ends before the next one starts.
NextEnvFlagSequential == NextEnvFlag({"t1"})
SpecEnvFlag == Init /\ [][NextEnvFlagSequential]_vars

\* Concurrent callers: their steps interleave in any order.
NextEnvFlagConcurrent == NextEnvFlag(Threads)
SpecEnvFlagConcurrent == Init /\ [][NextEnvFlagConcurrent]_vars

\* The agent is about to execute a tool; the handler runs, the user answers.
NextApproval ==
    \/ (\E p \in PendingChoices : ap_enter(p)) /\ UNCHANGED <<rwb_vars, config_vars, cls_vars, rc_vars, env_vars, ag_vars, util_vars, ei_vars>>
    \/ ap_preview /\ UNCHANGED <<rwb_vars, config_vars, cls_vars, rc_vars, env_vars, ag_vars, util_vars, ei_vars>>
    \/ (\E i \in UserInputs : ap_ask(i)) /\ UNCHANGED <<rwb_vars, config_vars, cls_vars, rc_vars, env_vars, ag_vars, util_vars, ei_vars>>
    \/ ap_tool_runs /\ UNCHANGED <<rwb_vars, config_vars, cls_vars, rc_vars, env_vars, ag_vars, util_vars, ei_vars>>

SpecApproval == Init /\ [][NextApproval]_vars

\* Threads call get_agent, _get_init_crm_agent and reset_agent; their steps
\* interleave in any order, and an Agent constructor may raise.
NextAgent ==
    \/ (\E t \in Threads, fn \in AgentFunctions : ag_call(t, fn)) /\ UNCHANGED <<rwb_vars, config_vars, cls_vars, rc_vars, env_vars, ap_vars, util_vars, ei_vars>>
    \/ (\E t \in Threads : ag_enter_lock(t)) /\ UNCHANGED <<rwb_vars, config_vars, cls_vars, rc_vars, env_vars, ap_vars, util_vars, ei_vars>>
    \/ (\E t \in Threads : ag_test(t)) /\ UNCHANGED <<rwb_vars, config_vars, cls_vars, rc_vars, env_vars, ap_vars, util_vars, ei_vars>>
    \/ (\E t \in Threads, raises \in BOOLEAN : ag_construct(t, raises)) /\ UNCHANGED <<rwb_vars, config_vars, cls_vars, rc_vars, env_vars, ap_vars, util_vars, ei_vars>>
    \/ (\E t \in Threads : ag_assign(t)) /\ UNCHANGED <<rwb_vars, config_vars, cls_vars, rc_vars, env_vars, ap_vars, util_vars, ei_vars>>
    \/ (\E t \in Threads : ag_return(t)) /\ UNCHANGED <<rwb_vars, config_vars, cls_vars, rc_vars, env_vars, ap_vars, util_vars, ei_vars>>
    \/ (\E t \in Threads : ag_clear(t)) /\ UNCHANGED <<rwb_vars, config_vars, cls_vars, rc_vars, env_vars, ap_vars, util_vars, ei_vars>>
    \/ (\E t \in Threads : ag_leave(t)) /\ UNCHANGED <<rwb_vars, config_vars, cls_vars, rc_vars, env_vars, ap_vars, util_vars, ei_vars>>

SpecAgent == Init /\ [][NextAgent]_vars

\* A caller or a test calls one helper on arguments of its choice.
NextUtil ==
    \/ util_fn = "none" /\ (\E text \in TruncateTexts, n \in TruncateLengths, suffix \in TruncateSuffixes : call_safe_truncate(text, n, suffix)) /\ UNCHANGED <<rwb_vars, config_vars, cls_vars, rc_vars, env_vars, ap_vars, ag_vars, ei_vars>>
    \/ util_fn = "none" /\ (\E line \in MemoryLines : call_parse_memory_line(line)) /\ UNCHANGED <<rwb_vars, config_vars, cls_vars, rc_vars, env_vars, ap_vars, ag_vars, ei_vars>>

SpecUtil == Init /\ [][NextUtil]_vars

\* The agent has run a tool and calls the handler; the LLM answers or fails as
\* it will, and time passes between any two steps.
NextInsights ==
    \/ (\E n \in LastToolNames, r \in ToolResults : ei_enter(n, r)) /\ UNCHANGED <<rwb_vars, config_vars, cls_vars, rc_vars, env_vars, ap_vars, ag_vars, util_vars>>
    \/ ei_lookup /\ UNCHANGED <<rwb_vars, config_vars, cls_vars, rc_vars, env_vars, ap_vars, ag_vars, util_vars>>
    \/ ei_analyze /\ UNCHANGED <<trace, outcome, config_vars, cls_vars, rc_vars, env_vars, ap_vars, ag_vars, util_vars>>
    \/ (\E v \in InsightValues : rwb_attempt_returns(v)) /\ UNCHANGED <<config_vars, cls_vars, rc_vars, env_vars, ap_vars, ag_vars, util_vars, ei_vars>>
    \/ (\E t \in InsightRaises : rwb_attempt_raises(t)) /\ UNCHANGED <<config_vars, cls_vars, rc_vars, env_vars, ap_vars, ag_vars, util_vars, ei_vars>>
    \/ rwb_sleep /\ UNCHANGED <<config_vars, cls_vars, rc_vars, env_vars, ap_vars, ag_vars, util_vars, ei_vars>>
    \/ rwb_raise_last /\ UNCHANGED <<config_vars, cls_vars, rc_vars, env_vars, ap_vars, ag_vars, util_vars, ei_vars>>
    \/ ei_finish /\ UNCHANGED <<config_vars, cls_vars, rc_vars, env_vars, ap_vars, ag_vars, util_vars>>
    \/ (\E d \in ClockSteps : clock_tick(d)) /\ UNCHANGED <<rwb_vars, config_vars, cls_vars, rc_vars, env_vars, ap_vars, ag_vars, util_vars>>

SpecInsights == Init /\ [][NextInsights]_vars

\* ------------------------------------------------ claims: retry_with_backoff

\* The invocations of func, the sleeps and the log records of the call, in order.
Calls == SelectSeq(trace, LAMBDA x : x.ev = "call")
Sleeps == SelectSeq(trace, LAMBDA x : x.ev = "sleep")
Warnings == SelectSeq(trace, LAMBDA x : x.ev = "warning")
Errors == SelectSeq(trace, LAMBDA x : x.ev = "error")

\* Every invocation so far raised an error, i.e. an instance of Exception.
AllCallsRaisedErrors ==
    \A i \in 1 .. Len(Calls) :
        Calls[i].out.kind = "raise" /\ Calls[i].out.exc.type \in ExceptionTypes

\* C1: when func raises an error on every attempt (max_attempts >= 1, so that a
\* last attempt exists), func is invoked exactly max_attempts times, never more
\* while the call runs, and the exception that leaves retry_with_backoff is the
\* instance the last invocation raised: the same class, raised by func, in
\* invocation number max_attempts.
C1_ExhaustionRaisesLast ==
    /\ (pc # "idle" /\ max_attempts >= 1) => Len(Calls) <= max_attempts
    /\ (pc = "raised" /\ max_attempts >= 1 /\ AllCallsRaisedErrors) =>
          /\ Len(Calls) = max_attempts
          /\ outcome = Calls[Len(Calls)].out
          /\ outcome.kind = "raise"
          /\ outcome.exc.origin = "func"
          /\ outcome.exc.id = max_attempts

\* C1 witness: three attempts failed with errors of different classes, and the
\* call has raised.
C1_Witness ==
    /\ pc = "raised"
    /\ max_attempts = 3
    /\ Len(Calls) = 3
    /\ AllCallsRaisedErrors
    /\ Calls[1].out.exc.type = "ValueError"
    /\ Calls[2].out.exc.type = "ValueError"
    /\ Calls[3].out.exc.type = "TypeError"

\* C2: an invocation of func that returns is the last invocation of the call;
\* it is invocation k+1 for attempt k < max_attempts, the call has returned, and
\* its result is the value func returned, falsy or not.
C2_FirstReturnEndsCall ==
    \A i \in 1 .. Len(Calls) :
        Calls[i].out.kind = "return" =>
            /\ i = Len(Calls)
            /\ Calls[i].attempt = i - 1
            /\ Calls[i].attempt < max_attempts
            /\ pc = "returned"
            /\ outcome = Returned(Calls[i].out.value)

\* C2 witness: func failed twice and then returned the falsy value 0.
C2_Witness ==
    /\ pc = "returned"
    /\ Len(Calls) = 3
    /\ outcome = Returned("0")

\* C3: every sleep lasts base_delay * 2^i, comes right after the failure of a
\* non-final attempt i (and its warning) and right before attempt i+1; every
\* attempt after the first is preceded by exactly that sleep; there is one sleep
\* per failed non-final attempt and none after a return or after the final
\* attempt.
C3_SleepsBetweenAttempts ==
    /\ \A p \in 1 .. Len(trace) :
          trace[p].ev = "sleep" =>
              /\ trace[p].delay = base_delay * (2 ^ trace[p].attempt)
              /\ trace[p].attempt < max_attempts - 1
              /\ p >= 3
              /\ trace[p - 2].ev = "call"
              /\ trace[p - 2].out.kind = "raise"
              /\ trace[p - 2].attempt = trace[p].attempt
              /\ p < Len(trace) =>
                    /\ trace[p + 1].ev = "call"
                    /\ trace[p + 1].attempt = trace[p].attempt + 1
    /\ \A p \in 1 .. Len(trace) :
          trace[p].ev = "call" =>
              IF trace[p].attempt = 0
                THEN p = 1
                ELSE /\ trace[p - 1].ev = "sleep"
                     /\ trace[p - 1].attempt = trace[p].attempt - 1
    /\ \A p \in 1 .. Len(trace) :
          (/\ trace[p].ev = "call"
           /\ \/ trace[p].out.kind = "return"
              \/ trace[p].attempt >= max_attempts - 1) =>
              \A q \in p .. Len(trace) : trace[q].ev # "sleep"
    /\ pc \in {"attempt", "exhausted", "returned", "raised"} =>
          Len(Sleeps) = Cardinality({p \in 1 .. Len(trace) :
                                        /\ trace[p].ev = "call"
                                        /\ trace[p].out.kind = "raise"
                                        /\ trace[p].out.exc.type \in ExceptionTypes
                                        /\ trace[p].attempt < max_attempts - 1})

\* C3 witness: with base_delay 2, three failures then a success slept 2, 4 and 8.
C3_Witness ==
    /\ pc = "returned"
    /\ base_delay = 2
    /\ Len(Sleeps) = 3
    /\ Sleeps[1].delay = 2
    /\ Sleeps[2].delay = 4
    /\ Sleeps[3].delay = 8

\* C4: whatever class of error func raises (any class deriving from Exception,
\* which is what `except Exception` names), a raise on a non-final attempt is
\* caught, so the call is sleeping, is about to make the further attempt or has
\* made it, and a raise on the final attempt is the exception that leaves the
\* call.
C4_EveryErrorKindRetried ==
    \A p \in 1 .. Len(trace) :
        (/\ trace[p].ev = "call"
         /\ trace[p].out.kind = "raise"
         /\ trace[p].out.exc.type \in ExceptionTypes) =>
            IF trace[p].attempt < max_attempts - 1
              THEN \/ pc = "sleep" /\ attempt = trace[p].attempt
                   \/ pc = "attempt" /\ attempt = trace[p].attempt + 1
                   \/ \E q \in p + 1 .. Len(trace) :
                         /\ trace[q].ev = "call"
                         /\ trace[q].attempt = trace[p].attempt + 1
              ELSE /\ pc \in {"exhausted", "raised"}
                   /\ pc = "raised" => outcome = trace[p].out

\* C4 witness: a ValueError, then a TypeError, then a plain Exception on the
\* final attempt, which is the one raised.
C4_Witness ==
    /\ pc = "raised"
    /\ Len(Calls) = 3
    /\ Calls[1].out.exc.type = "ValueError"
    /\ Calls[2].out.exc.type = "TypeError"
    /\ Calls[3].out.exc.type = "Exception"
    /\ outcome = Calls[3].out

\* C16: every invocation of func receives the positional arguments and the
\* keywords the caller wrote, the same on every attempt, except max_attempts and
\* base_delay, which func never receives: these two are retry_with_backoff's
\* own parameters, bound to the caller's keyword where one was given and to the
\* configured default otherwise.
C16_SameArgsEveryAttempt ==
    /\ \A i \in 1 .. Len(Calls) :
          /\ Calls[i].args.args = call_site.args
          /\ Calls[i].args.kwargs = call_site.kwargs
          /\ \A kw \in Calls[i].args.kwargs : kw[1] \notin {"max_attempts", "base_delay"}
          /\ Calls[i].args = Calls[1].args
    /\ pc # "idle" =>
          /\ max_attempts = IF "max_attempts" \in DOMAIN call_site.overrides
                              THEN call_site.overrides["max_attempts"] ELSE LLM_RETRY_ATTEMPTS
          /\ base_delay = IF "base_delay" \in DOMAIN call_site.overrides
                            THEN call_site.overrides["base_delay"] ELSE LLM_RETRY_DELAY

\* C16 witness: a call written with two positional arguments, key1="value1" and
\* max_attempts=4 has invoked func four times with the arguments
\* ("arg1", "arg2", key1="value1").
C16_Witness ==
    /\ Len(Calls) = 4
    /\ DOMAIN call_site.overrides = {"max_attempts"}
    /\ call_site.overrides["max_attempts"] = 4
    /\ base_delay = LLM_RETRY_DELAY
    /\ \A i \in 1 .. 4 :
          Calls[i].args = [args |-> <<"arg1", "arg2">>, kwargs |-> {<<"key1", "value1">>}]

\* the attempts that failed: func raised an exception the handler catches
FailedAttempts == {i \in DOMAIN trace : trace[i].ev = "call" /\ trace[i].out.kind = "raise"
                                        /\ trace[i].out.exc.type \in ExceptionTypes}
LogRecords == {i \in DOMAIN trace : trace[i].ev \in {"warning", "error"}}

\* C24: during one retry_with_backoff call every failed attempt is followed at
\* once by exactly one log record about that attempt - a warning when attempts
\* remain, the error when it was the last allowed attempt - and nothing else is
\* logged (nothing for an attempt that returned); so a call that returned has
\* logged no error, and a call that made attempts and used them all up has
\* logged max_attempts - 1 warnings and one error.
C24_OneWarningPerRetryOneErrorAtEnd ==
    /\ \A i \in FailedAttempts :
          /\ i + 1 \in LogRecords
          /\ trace[i + 1].attempt = trace[i].attempt
          /\ trace[i + 1].ev = (IF trace[i].attempt < max_attempts - 1 THEN "warning" ELSE "error")
    /\ \A i \in LogRecords : i - 1 \in FailedAttempts
    /\ Len(Warnings) + Len(Errors) = Cardinality(FailedAttempts)
    /\ Len(Errors) <= 1
    /\ Len(Errors) = 1 <=>
          \E i \in FailedAttempts : trace[i].attempt = max_attempts - 1
    /\ outcome.kind = "return" => Len(Errors) = 0
    /\ (pc \in {"exhausted", "raised"} /\ Calls # <<>> /\ Len(Calls) = max_attempts
        /\ Cardinality(FailedAttempts) = max_attempts) =>
          /\ Len(Warnings) = max_attempts - 1
          /\ Len(Errors) = 1

\* C24 witness: a call with four attempts allowed failed four times and has
\* logged three warnings and then the error.
C24_Witness ==
    /\ pc = "raised"
    /\ max_attempts = 4
    /\ Len(Calls) = 4
    /\ Len(Warnings) = 3
    /\ Len(Errors) = 1
    /\ trace[Len(trace)].ev = "error"

\* C28, as claimed: for every integer max_attempts, 0 and negative values
\* included, a retry_with_backoff call that has ended either returned a value
\* func returned or raised an exception func raised; func is never invoked more
\* than max_attempts times (never at all when max_attempts is 0 or negative),
\* and no error is raised that did not come from func.
C28_EndsWithValueOrExceptionOfFunc ==
    /\ pc # "idle" => Len(Calls) <= (IF max_attempts > 0 THEN max_attempts ELSE 0)
    /\ pc = "returned" =>
          /\ outcome.kind = "return"
          /\ Calls # <<>>
          /\ Calls[Len(Calls)].out = outcome
    /\ pc = "raised" =>
          /\ outcome.kind = "raise"
          /\ outcome.exc.origin = "func"
          /\ \E i \in 1 .. Len(Calls) : Calls[i].out = outcome

\* ------------------------------------------------------ claims: classifier

StartsWith(s, pre) == Len(s) >= Len(pre) /\ SubSeq(s, 1, Len(pre)) = pre
EndsWith(s, suf) == Len(s) >= Len(suf) /\ SubSeq(s, Len(s) - Len(suf) + 1, Len(s)) = suf
Contains(s, sub) ==
    \E i \in 1 .. Len(s) - Len(sub) + 1 : SubSeq(s, i, i + Len(sub) - 1) = sub

\* the prefixes 172.16. to 172.31.
Private172Prefixes == {
    <<"1", "7", "2", ".", "1", "6", ".">>, <<"1", "7", "2", ".", "1", "7", ".">>, <<"1", "7", "2", ".", "1", "8", ".">>, <<"1", "7", "2", ".", "1", "9", ".">>, <<"1", "7", "2", ".", "2", "0", ".">>, <<"1", "7", "2", ".", "2", "1", ".">>, <<"1", "7", "2", ".", "2", "2", ".">>, <<"1", "7", "2", ".", "2", "3", ".">>,
    <<"1", "7", "2", ".", "2", "4", ".">>, <<"1", "7", "2", ".", "2", "5", ".">>, <<"1", "7", "2", ".", "2", "6", ".">>, <<"1", "7", "2", ".", "2", "7", ".">>, <<"1", "7", "2", ".", "2", "8", ".">>, <<"1", "7", "2", ".", "2", "9", ".">>, <<"1", "7", "2", ".", "3", "0", ".">>, <<"1", "7", "2", ".", "3", "1", ".">> }
BlockedIPv4Prefixes ==
    {<<"1", "2", "7", ".">>, <<"1", "0", ".">>, <<"1", "9", "2", ".", "1", "6", "8", ".">>, <<"1", "6", "9", ".", "2", "5", "4", ".">>, <<"0", ".">>} \cup Private172Prefixes
BlockedLiterals == {<<":", ":", "1">>, <<"f", "d", "0", "0", ":", ":", "1">>, <<"f", "e", "8", "0", ":", ":", "1">>, <<"l", "o", "c", "a", "l", "h", "o", "s", "t">>}
BlockedSuffixes == {<<".", "i", "n", "t", "e", "r", "n", "a", "l">>, <<".", "l", "o", "c", "a", "l">>, <<".", "l", "o", "c", "a", "l", "d", "o", "m", "a", "i", "n">>, <<".", "c", "o", "r", "p">>, <<".", "l", "a", "n">>}
PublicNames == {<<"g", "o", "o", "g", "l", "e", ".", "c", "o", "m">>, <<"a", "c", "m", "e", ".", "c", "o", "m">>, <<"e", "x", "a", "m", "p", "l", "e", ".", "o", "r", "g">>}

\* the last classifier call was is_safe_domain on a string
SafeDomainCalled == cls_fn = "is_safe_domain" /\ cls_arg.tag = "str"

\* an IPv6 literal whose first 16-bit group, written with four hex digits, lies
\* in fd00..fdff (fd00::/8) or in fe80..febf (fe80::/10)
PrivateOrLinkLocalIPv6(s) ==
    /\ Len(s) > 5
    /\ s[5] = ":"
    /\ \/ s[1] = "f" /\ s[2] = "d" /\ s[3] \in HexDigits /\ s[4] \in HexDigits
       \/ s[1] = "f" /\ s[2] = "e" /\ s[3] \in {"8", "9", "a", "b"} /\ s[4] \in HexDigits
    /\ \A i \in 6 .. Len(s) : s[i] \in HexDigits \cup {":"}

\* C25, as claimed: is_safe_domain returns False for every IPv6 literal inside
\* fd00::/8 and inside fe80::/10, that is, for every address whose first group
\* lies in fd00..fdff or in fe80..febf.
C25_PrivateAndLinkLocalIPv6Rejected ==
    (SafeDomainCalled /\ PrivateOrLinkLocalIPv6(cls_arg.s)) => cls_out = PyBool(FALSE)

\* C6: is_safe_domain returns False for every string that begins with a blocked
\* IPv4 prefix, is ::1, fd00::1, fe80::1 or localhost, or ends in a blocked suffix,
\* and returns True for google.com, acme.com and example.org.
C6_BlockedClassesRejected ==
    SafeDomainCalled =>
        /\ (\/ \E pre \in BlockedIPv4Prefixes : StartsWith(cls_arg.s, pre)
            \/ cls_arg.s \in BlockedLiterals
            \/ \E suf \in BlockedSuffixes : EndsWith(cls_arg.s, suf))
           => cls_out = PyBool(FALSE)
        /\ cls_arg.s \in PublicNames => cls_out = PyBool(TRUE)

\* C6 witness: server.localdomain was given and rejected.
C6_Witness ==
    /\ SafeDomainCalled
    /\ cls_arg.s = <<"s", "e", "r", "v", "e", "r", ".", "l", "o", "c", "a", "l", "d", "o", "m", "a", "i", "n">>
    /\ cls_out = PyBool(FALSE)

\* C7, as claimed: every domain in which localhost or one of the five suffix
\* tokens occurs anywhere is rejected.
C7_TokenAnywhereRejected ==
    (/\ SafeDomainCalled
     /\ \E tok \in BlockedSuffixes \cup {<<"l", "o", "c", "a", "l", "h", "o", "s", "t">>} : Contains(cls_arg.s, tok))
    => cls_out = PyBool(FALSE)

\* C7, amended: every domain in which localhost occurs anywhere (in any letter
\* case), and every domain that, trimmed and lower-cased, ends in one of the
\* five suffixes, is rejected.
C7_LocalhostAnywhereSuffixAtEnd ==
    (/\ SafeDomainCalled
     /\ \/ Contains(lower(cls_arg.s), <<"l", "o", "c", "a", "l", "h", "o", "s", "t">>)
        \/ \E suf \in BlockedSuffixes : EndsWith(strip(lower(cls_arg.s)), suf))
    => cls_out = PyBool(FALSE)

\* C7 witness: localhost in the middle of a public-looking name is rejected.
C7_Witness ==
    /\ SafeDomainCalled
    /\ cls_arg.s = <<"s", "e", "r", "v", "e", "r", ".", "m", "y", "l", "o", "c", "a", "l", "h", "o", "s", "t", ".", "c", "o", "m">>
    /\ cls_out = PyBool(FALSE)

\* C8: the verdict on a domain is the verdict on the domain trimmed and
\* lower-cased.
C8_VerdictOfTrimmedLowercased ==
    SafeDomainCalled => cls_out = is_safe_domain(PyStr(lower(strip(cls_arg.s)))).out

\* C8 witness: LOCALHOST with whitespace around it was rejected.
C8_Witness ==
    /\ SafeDomainCalled
    /\ cls_arg.s = <<" ", "L", "O", "C", "A", "L", "H", "O", "S", "T", "\n">>
    /\ cls_out = PyBool(FALSE)

\* C9: a call of is_safe_domain that returns False logged exactly one warning,
\* naming the domain as given; one that returns True logged nothing; the other
\* classifier functions log nothing; and the pattern list and the
\* personal-domain set are as configured.
C9_OneWarningNoOtherEffect ==
    /\ BLOCKED_DOMAIN_PATTERNS = InitialBlockedPatterns
    /\ PERSONAL_EMAIL_DOMAINS = InitialPersonalDomains
    /\ (SafeDomainCalled /\ cls_out = PyBool(FALSE)) =>
           caplog = <<[level |-> "warning", domain |-> cls_arg.s]>>
    /\ (SafeDomainCalled /\ cls_out = PyBool(TRUE)) => caplog = <<>>
    /\ cls_fn \in {"is_valid_email", "is_personal_email", "extract_domain"} => caplog = <<>>

\* C9 witness: localhost.local matches two patterns and was rejected with one
\* warning.
C9_Witness ==
    /\ SafeDomainCalled
    /\ cls_arg.s = <<"l", "o", "c", "a", "l", "h", "o", "s", "t", ".", "l", "o", "c", "a", "l">>
    /\ cls_out = PyBool(FALSE)
    /\ Len(caplog) = 1

\* C10, as claimed: no classifier call raises, whatever its input.
C10_ClassifiersNeverRaise == cls_out.tag # "raise"

\* ------------------------------------------------ claims: research_contact

NetworkCalls ==
    SelectSeq(rc_calls, LAMBDA c : c.svc \in {"web.fetch", "web.get_social_links"})

\* C5: whenever research_contact has issued a web request, the address had
\* passed is_valid_email, had been found not personal, and the domain extracted
\* from it - the one requested - had passed is_safe_domain, each check having
\* run earlier in the call; and a call that went through to the SSRF check with
\* a blocked domain has returned the refusal with no web request and no LLM call.
C5_NoFetchBeforeChecks ==
    /\ NetworkCalls # <<>> =>
          /\ {"valid", "not_personal", "safe"} \subseteq rc_checks
          /\ is_valid_email(rc_email).b
          /\ ~is_personal_email(rc_email).b
          /\ rc_domain = extract_domain(rc_email)
          /\ is_safe_domain(rc_domain).out.b
          /\ \A i \in 1 .. Len(NetworkCalls) : NetworkCalls[i].arg = rc_domain.s
    /\ (/\ {"valid", "not_personal"} \subseteq rc_checks
        /\ rc_pc \notin {"idle", "read_memory", "extract_domain", "check_personal", "check_safe"}
        /\ ~is_safe_domain(rc_domain).out.b) =>
          /\ rc_pc = "done"
          /\ rc_result = "blocked"
          /\ NetworkCalls = <<>>
          /\ Calls = <<>>
          /\ pc = "idle"

\* C5 witness: user@server.local is a valid, non-personal address whose domain
\* is blocked; the call ended with the refusal, having only read the memory.
C5_Witness ==
    /\ rc_pc = "done"
    /\ rc_result = "blocked"
    /\ rc_email = PyStr(<<"u", "s", "e", "r", "@", "s", "e", "r", "v", "e", "r", ".", "l", "o", "c", "a", "l">>)
    /\ Len(rc_calls) = 1
    /\ rc_calls[1].svc = "memory.read_memory"

\* the calls of web.fetch that research_contact has made
FetchCalls == SelectSeq(rc_calls, LAMBDA c : c.svc = "web.fetch")

\* C23, as claimed: in research_contact the classification steps come before
\* the network fetch, and the fetch of the company site is made through
\* retry_with_backoff, so that a fetch error is reported only after the fetch
\* has been attempted the configured number of times.
C23_FetchRetriedThroughBackoff ==
    /\ FetchCalls # <<>> => {"valid", "not_personal", "safe"} \subseteq rc_checks
    /\ FetchCalls # <<>> => pc # "idle"
    /\ rc_result = "fetch_error" => Len(FetchCalls) = LLM_RETRY_ATTEMPTS

\* C23, amended: the classification steps come before the network fetch;
\* web.fetch is called directly and at most once in a call, before
\* retry_with_backoff is entered, and a fetch that raises or returns too little
\* ends the call at once with no further attempt; what runs through
\* retry_with_backoff is the LLM analysis that follows a successful fetch, with
\* the configured attempt limit, and an analysis reported as failed because it
\* raised has been attempted LLM_RETRY_ATTEMPTS times.
C23_FetchOnceAnalysisThroughBackoff ==
    /\ FetchCalls # <<>> => {"valid", "not_personal", "safe"} \subseteq rc_checks
    /\ Len(FetchCalls) <= 1
    /\ rc_result \in {"fetch_error", "fetch_failed"} =>
          /\ Len(FetchCalls) = 1
          /\ pc = "idle"
          /\ trace = <<>>
    /\ pc # "idle" =>
          /\ Len(FetchCalls) = 1
          /\ rc_calls[Len(rc_calls)].svc # "web.fetch"
          /\ max_attempts = LLM_RETRY_ATTEMPTS
          /\ func_args.args = <<"prompt">>
    /\ (rc_result = "analysis_failed" /\ pc = "raised") => Len(Calls) = LLM_RETRY_ATTEMPTS

\* C23 witness: the one fetch of a call raised and the call ended with the
\* fetch error, retry_with_backoff never having been entered.
C23_Witness ==
    /\ rc_pc = "done"
    /\ rc_result = "fetch_error"
    /\ Len(FetchCalls) = 1
    /\ {"valid", "not_personal", "safe"} \subseteq rc_checks
    /\ pc = "idle"

\* ------------------------------------------ claims: is_valid_email and others

\* the "@" positions of s, and the text before the first one
AtPositions(s) == {i \in 1 .. Len(s) : s[i] = "@"}
LocalPart(s) == SubSeq(s, 1, (CHOOSE i \in AtPositions(s) : \A j \in AtPositions(s) : i <= j) - 1)
\* the characters of the ASCII range that str.isspace() holds of
SpaceChars == {" ", "\t", "\n", "\r", "\f"}
\* the characters the claims allow in a local part and in a domain
AllowedLocalChars == Letters \cup Digits \cup {".", "_", "%", "+", "-"}
AllowedDomainChars == Letters \cup Digits \cup {".", "-"}

ValidEmailCalled == cls_fn = "is_valid_email" /\ cls_arg.tag = "str"

\* C11, as claimed: is_valid_email returns False for every string that holds a
\* whitespace character anywhere (a trailing newline included), for every string
\* with more than one "@", and for every string whose local part holds a
\* character outside letters, digits and . _ % + -.
C11_RejectsWhitespaceMultiAtBadLocal ==
    (/\ ValidEmailCalled
     /\ \/ \E i \in 1 .. Len(cls_arg.s) : cls_arg.s[i] \in SpaceChars
        \/ Cardinality(AtPositions(cls_arg.s)) > 1
        \/ /\ AtPositions(cls_arg.s) # {}
           /\ \E i \in 1 .. Len(LocalPart(cls_arg.s)) : LocalPart(cls_arg.s)[i] \notin AllowedLocalChars)
    => cls_out = PyBool(FALSE)

\* s has the shape local@domain.tld: one "@", a non-empty local part of allowed
\* characters, and after the "@" a non-empty run of domain characters, a dot and
\* a last label of two letters or more.
HasEmailShape(s) ==
    /\ Cardinality(AtPositions(s)) = 1
    /\ LET a == CHOOSE i \in AtPositions(s) : TRUE
           dots == {i \in a + 1 .. Len(s) : s[i] = "."}
       IN /\ a >= 2
          /\ \A i \in 1 .. a - 1 : s[i] \in AllowedLocalChars
          /\ dots # {}
          /\ LET d == CHOOSE i \in dots : \A j \in dots : i >= j
             IN /\ d >= a + 2
                /\ \A i \in a + 1 .. d - 1 : s[i] \in AllowedDomainChars
                /\ Len(s) >= d + 2
                /\ \A i \in d + 1 .. Len(s) : s[i] \in Letters

\* C12: is_valid_email returns True for every string of the shape
\* local@domain.tld with a last label of two letters or more, whatever the
\* letter case; it returns False for None, for the empty string, for every
\* string with no "@", and for every string with no dot after its "@".
C12_AcceptsShapeRejectsNoAtNoTld ==
    cls_fn = "is_valid_email" =>
        /\ (cls_arg.tag = "str" /\ HasEmailShape(cls_arg.s)) => cls_out = PyBool(TRUE)
        /\ cls_arg.tag = "none" => cls_out = PyBool(FALSE)
        /\ (cls_arg.tag = "str" /\ AtPositions(cls_arg.s) = {}) => cls_out = PyBool(FALSE)
        /\ (/\ cls_arg.tag = "str"
            /\ AtPositions(cls_arg.s) # {}
            /\ \A i \in Len(LocalPart(cls_arg.s)) + 2 .. Len(cls_arg.s) : cls_arg.s[i] # ".")
           => cls_out = PyBool(FALSE)

\* C12 witness: an address with a tagged local part and a hyphenated,
\* multi-label domain was accepted.
C12_Witness ==
    /\ ValidEmailCalled
    /\ cls_arg.s = <<"u", "s", "e", "r", "+", "t", "a", "g", "@", "s", "u", "b", "-", "d", "o", "m", "a", "i", "n", ".", "c", "o", ".", "u", "k">>
    /\ cls_out = PyBool(TRUE)

\* the text of s after its first "@"
AfterFirstAt(s) == SubSeq(s, Len(LocalPart(s)) + 2, Len(s))

ExtractDomainCalled == cls_fn = "extract_domain" /\ cls_arg.tag = "str"

\* C13, as claimed: for every address that holds an "@", extract_domain returns
\* all the text after the first "@", lower-cased (so addresses that differ only
\* in letter case give the same domain).
C13_ReturnsWholeRemainderLowercased ==
    (ExtractDomainCalled /\ AtPositions(cls_arg.s) # {}) =>
        /\ cls_out = PyStr(lower(AfterFirstAt(cls_arg.s)))
        /\ cls_out = extract_domain(PyStr(lower(cls_arg.s)))
        /\ cls_out = extract_domain(PyStr(upper(cls_arg.s)))

\* r is the text of s between its first "@" and the next "@", or the end of s
\* when there is no other "@"
IsSegmentAfterFirstAt(r, s) ==
    /\ AtPositions(r) = {}
    /\ StartsWith(AfterFirstAt(s), r)
    /\ Len(r) < Len(AfterFirstAt(s)) => AfterFirstAt(s)[Len(r) + 1] = "@"

\* C13, amended: for every address that holds an "@", extract_domain returns
\* the text after the first "@" up to the next "@" or, when there is none, up
\* to the end, lower-cased (so addresses that differ only in letter case give
\* the same domain); with one "@" that is all the text after it.
C13_ReturnsSegmentAfterFirstAtLowercased ==
    (ExtractDomainCalled /\ AtPositions(cls_arg.s) # {}) =>
        /\ cls_out.tag = "str"
        /\ cls_out.s = lower(SubSeq(AfterFirstAt(cls_arg.s), 1, Len(cls_out.s)))
        /\ IsSegmentAfterFirstAt(SubSeq(AfterFirstAt(cls_arg.s), 1, Len(cls_out.s)), cls_arg.s)
        /\ Cardinality(AtPositions(cls_arg.s)) = 1 => cls_out = PyStr(lower(AfterFirstAt(cls_arg.s)))
        /\ cls_out = extract_domain(PyStr(lower(cls_arg.s)))
        /\ cls_out = extract_domain(PyStr(upper(cls_arg.s)))

\* C13 witness: user@domain@example.com gave domain.
C13_Witness ==
    /\ ExtractDomainCalled
    /\ cls_arg.s = <<"u", "s", "e", "r", "@", "d", "o", "m", "a", "i", "n", "@", "e", "x", "a", "m", "p", "l", "e", ".", "c", "o", "m">>
    /\ cls_out = PyStr(<<"d", "o", "m", "a", "i", "n">>)

\* C14: on a string, extract_domain returns None exactly when the string holds
\* no "@"; when nothing follows the first "@" (user@, or @ alone) it returns
\* the empty string, which is a str and not None.
C14_NoneIffNoAt ==
    ExtractDomainCalled =>
        /\ cls_out = PyNone <=> AtPositions(cls_arg.s) = {}
        /\ (AtPositions(cls_arg.s) # {} /\ AfterFirstAt(cls_arg.s) = <<>>) =>
              /\ cls_out = PyStr(<<>>)
              /\ cls_out.tag = "str"
              /\ cls_out # PyNone

\* C14 witness: user@ gave the empty string.
C14_Witness ==
    /\ ExtractDomainCalled
    /\ cls_arg.s = <<"u", "s", "e", "r", "@">>
    /\ cls_out = PyStr(<<>>)

\* the domains named by config.PERSONAL_EMAIL_DOMAINS
PersonalDomainNames == {
    <<"g", "m", "a", "i", "l", ".", "c", "o", "m">>, <<"y", "a", "h", "o", "o", ".", "c", "o", "m">>, <<"h", "o", "t", "m", "a", "i", "l", ".", "c", "o", "m">>, <<"o", "u", "t", "l", "o", "o", "k", ".", "c", "o", "m">>, <<"i", "c", "l", "o", "u", "d", ".", "c", "o", "m">>,
    <<"a", "o", "l", ".", "c", "o", "m">>, <<"p", "r", "o", "t", "o", "n", "m", "a", "i", "l", ".", "c", "o", "m">>, <<"p", "r", "o", "t", "o", "n", ".", "m", "e">>, <<"m", "a", "i", "l", ".", "c", "o", "m">>, <<"z", "o", "h", "o", ".", "c", "o", "m">>,
    <<"y", "a", "n", "d", "e", "x", ".", "c", "o", "m">>, <<"g", "m", "x", ".", "c", "o", "m">>, <<"f", "a", "s", "t", "m", "a", "i", "l", ".", "c", "o", "m">>, <<"t", "u", "t", "a", "n", "o", "t", "a", ".", "c", "o", "m">>, <<"h", "e", "y", ".", "c", "o", "m">> }

PersonalEmailCalled == cls_fn = "is_personal_email" /\ cls_arg.tag = "str"

\* C15: for an address local@D with one "@", is_personal_email returns True when
\* D, in whatever letter case it is written, is one of the personal domains and
\* False when it is not (acme.com); it returns False for every string with no
\* "@".
C15_PersonalIffDomainInSet ==
    PersonalEmailCalled =>
        /\ Cardinality(AtPositions(cls_arg.s)) = 1 =>
              cls_out = PyBool(lower(AfterFirstAt(cls_arg.s)) \in PersonalDomainNames)
        /\ cls_arg.s = <<"u", "s", "e", "r", "@", "a", "c", "m", "e", ".", "c", "o", "m">> => cls_out = PyBool(FALSE)
        /\ AtPositions(cls_arg.s) = {} => cls_out = PyBool(FALSE)

\* C15 witness: user@PROTONMAIL.COM was classified as personal.
C15_Witness ==
    /\ PersonalEmailCalled
    /\ cls_arg.s = <<"u", "s", "e", "r", "@", "P", "R", "O", "T", "O", "N", "M", "A", "I", "L", ".", "C", "O", "M">>
    /\ cls_out = PyBool(TRUE)

\* the text of s between its first and its second "@", for s with two or more
BetweenFirstTwoAts(s) ==
    LET first == CHOOSE i \in AtPositions(s) : \A j \in AtPositions(s) : i <= j
        second == CHOOSE i \in AtPositions(s) \ {first} : \A j \in AtPositions(s) \ {first} : i <= j
    IN SubSeq(s, first + 1, second - 1)

\* C26: for an address with more than one "@", extract_domain returns the
\* lower-cased text between the first and the second "@"
\* (user@domain@example.com gives domain) and is_personal_email decides on that
\* same text; for every string, is_personal_email returns True exactly when
\* extract_domain returns a member of the personal-domain set.
C26_PersonalIffExtractedDomainInSet ==
    /\ (ExtractDomainCalled /\ Cardinality(AtPositions(cls_arg.s)) > 1) =>
          cls_out = PyStr(lower(BetweenFirstTwoAts(cls_arg.s)))
    /\ (ExtractDomainCalled /\ cls_arg.s = <<"u", "s", "e", "r", "@", "d", "o", "m", "a", "i", "n", "@", "e", "x", "a", "m", "p", "l", "e", ".", "c", "o", "m">>) =>
          cls_out = PyStr(<<"d", "o", "m", "a", "i", "n">>)
    /\ (PersonalEmailCalled /\ Cardinality(AtPositions(cls_arg.s)) > 1) =>
          cls_out = PyBool(lower(BetweenFirstTwoAts(cls_arg.s)) \in PersonalDomainNames)
    /\ PersonalEmailCalled =>
          cls_out = PyBool(/\ extract_domain(cls_arg).tag = "str"
                           /\ extract_domain(cls_arg).s \in PersonalDomainNames)
    /\ ExtractDomainCalled =>
          is_personal_email(cls_arg) = PyBool(cls_out.tag = "str" /\ cls_out.s \in PersonalDomainNames)

\* C26 witness: user@gmail.com@example.com was classified as personal, by the
\* text between its two "@".
C26_Witness ==
    /\ PersonalEmailCalled
    /\ cls_arg.s = <<"u", "s", "e", "r", "@", "g", "m", "a", "i", "l", ".", "c", "o", "m", "@", "e", "x", "a", "m", "p", "l", "e", ".", "c", "o", "m">>
    /\ cls_out = PyBool(TRUE)
    /\ extract_domain(cls_arg) = PyStr(<<"g", "m", "a", "i", "l", ".", "c", "o", "m">>)

\* ---------------------------------------------------- claims: set_env_flag

\* the calls that ended after an OSError, in the order they ended
FailedEnvCalls == SelectSeq(ef_history, LAMBDA h : h.os_error)
AllEnvCallsSucceeded == \A i \in 1 .. Len(ef_history) : ef_history[i].result = "True"
NoEnvCallRunning == \A t \in Threads : ef_pc[t] = "idle"

\* C17: no call of set_env_flag ends by raising; a call during which the file
\* system raised an OSError returned False and logged one record, at error
\* level, naming its key; a call that went through without an OSError returned
\* True and logged nothing.
C17_OSErrorGivesFalseAndOneLog ==
    /\ \A i \in 1 .. Len(ef_history) :
          /\ ef_history[i].result \in {"True", "False"}
          /\ ef_history[i].os_error <=> ef_history[i].result = "False"
    /\ Len(ef_log) = Len(FailedEnvCalls)
    /\ \A i \in 1 .. Len(ef_log) :
          ef_log[i] = [level |-> "error", key |-> FailedEnvCalls[i].key]

\* C17 witness: a call failed and returned False with one record logged, and
\* the call after it went through and returned True.
C17_Witness ==
    /\ Len(ef_history) = 2
    /\ ef_history[1].result = "False"
    /\ ef_history[2].result = "True"
    /\ Len(ef_log) = 1

\* The lines the file should hold after the calls of hist, from call i on: one
\* line per key, in the order in which the keys were first set, each with the
\* value of the latest call for its key.
RECURSIVE ExpectedLinesFrom(_, _)
ExpectedLinesFrom(hist, i) ==
    IF i > Len(hist) THEN <<>>
    ELSE LET k == hist[i].key
             same == {j \in 1 .. Len(hist) : hist[j].key = k}
             latest == CHOOSE j \in same : \A m \in same : j >= m
         IN (IF \E j \in 1 .. i - 1 : hist[j].key = k
               THEN <<>>
               ELSE <<k \o <<"=">> \o hist[latest].value>>)
            \o ExpectedLinesFrom(hist, i + 1)

RECURSIVE TextOfLines(_)
TextOfLines(ls) == IF ls = <<>> THEN <<>> ELSE ls[1] \o <<"\n">> \o TextOfLines(Tail(ls))

\* C18: started on an empty file and called one call after the other, once
\* every call so far has returned True the file holds exactly one KEY=value line
\* for each key set, with the value of the latest call for that key, the lines
\* standing in the order in which the keys were first set: a call changes the
\* line of its own key and no other line.
C18_OneLinePerKeyLatestValue ==
    (NoEnvCallRunning /\ AllEnvCallsSucceeded /\ ef_history # <<>>) =>
        env_content = TextOfLines(ExpectedLinesFrom(ef_history, 1))

\* C18 witness: A=1, AB=1 and then A=x=y were set; the file holds A=x=y and
\* AB=1, in this order.
C18_Witness ==
    /\ NoEnvCallRunning
    /\ AllEnvCallsSucceeded
    /\ Len(ef_history) = 3
    /\ ef_history[1].key = <<"A">> /\ ef_history[1].value = <<"1">>
    /\ ef_history[2].key = <<"A", "B">> /\ ef_history[2].value = <<"1">>
    /\ ef_history[3].key = <<"A">> /\ ef_history[3].value = <<"x", "=", "y">>
    /\ env_content = <<"A", "=", "x", "=", "y", "\n", "A", "B", "=", "1", "\n">>


\* C30, as claimed: a call of set_env_flag that returns False leaves the env
\* file exactly as it was when the call began: it exists or not as before and
\* holds the same text, so no line stored before is lost.
C30_FalseLeavesFileAsBefore ==
    \A i \in 1 .. Len(ef_history) :
        ef_history[i].result = "False" => ef_history[i].file_as_before

\* C19, as claimed: whatever the interleaving of concurrent calls for distinct
\* keys, once all of them have returned True the file holds the line written
\* by each of them and nothing else (no lost update, no torn line).
C19_NoLostUpdateUnderConcurrency ==
    (/\ NoEnvCallRunning
     /\ AllEnvCallsSucceeded
     /\ \A i, j \in 1 .. Len(ef_history) : i # j => ef_history[i].key # ef_history[j].key)
    => LET written == {ef_history[i].key \o <<"=">> \o ef_history[i].value : i \in 1 .. Len(ef_history)}
           held == splitlines(env_content)
       IN /\ \A l \in written : \E i \in 1 .. Len(held) : held[i] = l
          /\ \A i \in 1 .. Len(held) : held[i] \in written

\* ------------------------------------------- claims: require_send_approval

\* the four tool names of the claim
ClaimedSendTools == {"send_email", "reply_to_email", "Gmail.send_email", "Gmail.reply_to_email"}
\* the answers that confirm, the answers that decline, and the empty answer
\* that accepts the default
YesAnswers == {PyStr(<<"y">>), PyStr(<<"Y">>), PyStr(<<" ", "y", " ">>)}
NoAnswers == {PyStr(<<"n">>), PyStr(<<"N">>)}
DefaultAnswer == PyStr(<<>>)
LastInput == ap_inputs[Len(ap_inputs)]

\* C20: a pending tool named send_email, reply_to_email, Gmail.send_email or
\* Gmail.reply_to_email is executed only after the handler showed the preview,
\* asked, and the user's last answer was a yes; when the last answer is a no or
\* the empty answer, the handler has raised RuntimeError and the tool is not
\* executed; for every other tool name the handler prints nothing, asks
\* nothing and does not raise.
C20_SendOnlyAfterExplicitYes ==
    LET name == IF pending_tool.present THEN pending_tool.name ELSE ""
    IN /\ (name \in ClaimedSendTools /\ (tool_ran \/ ap_outcome = "returned")) =>
             /\ Len(ap_console) = 1
             /\ ap_inputs # <<>>
             /\ LastInput \in YesAnswers
       /\ (/\ name \in ClaimedSendTools
           /\ ap_inputs # <<>>
           /\ LastInput \in NoAnswers \cup {DefaultAnswer}) =>
             /\ ap_pc = "done"
             /\ ap_outcome = "RuntimeError"
             /\ ~tool_ran
       /\ (name \in ClaimedSendTools /\ ap_outcome \notin {"none", "returned"}) => ~tool_ran
       /\ (ap_pc # "idle" /\ name \notin ClaimedSendTools) =>
             /\ ap_console = <<>>
             /\ ap_inputs = <<>>
             /\ ap_outcome = "returned"

\* C20 witness: for Gmail.reply_to_email the user typed something else first
\* and then accepted the default; the handler raised RuntimeError and the tool
\* was not executed.
C20_Witness ==
    /\ pending_tool.present
    /\ pending_tool.name = "Gmail.reply_to_email"
    /\ Len(ap_inputs) = 2
    /\ LastInput = DefaultAnswer
    /\ ap_outcome = "RuntimeError"
    /\ ~tool_ran

\* ------------------------------------------------ claims: agent singletons

\* the calls of a getter that have returned
GetterReturns == {i \in DOMAIN ag_history : ag_history[i].fn \in SingletonGetters /\ ~ag_history[i].raised}

\* C21: in any interleaving of get_agent, _get_init_crm_agent and reset_agent
\* calls, between two resets each singleton's Agent is constructed at most once,
\* and exactly once when a getter has returned: every getter call returns an
\* Agent (never None) of its own kind that was constructed since the last reset,
\* so calls with no reset between them return the same instance and a call
\* after a reset returns an instance no earlier call returned.
C21_OneInstanceBetweenResets ==
    /\ \A i, j \in DOMAIN ag_objects :
          (ag_objects[i].name = ag_objects[j].name /\ ag_objects[i].resets = ag_objects[j].resets) => i = j
    /\ \A i \in GetterReturns :
          /\ ag_history[i].result \in DOMAIN ag_objects
          /\ ag_objects[ag_history[i].result].name = AgentName(ag_history[i].fn)
          /\ ag_objects[ag_history[i].result].resets = ag_history[i].resets
    /\ \A i, j \in GetterReturns :
          ag_history[i].fn = ag_history[j].fn =>
              (ag_history[i].result = ag_history[j].result <=> ag_history[i].resets = ag_history[j].resets)

\* C21 witness: two threads got the same email-agent instance, reset_agent ran,
\* and a later get_agent returned another instance.
C21_Witness ==
    \E i, j, k \in GetterReturns :
        /\ i < j /\ j < k
        /\ ag_history[i].fn = "get_agent" /\ ag_history[j].fn = "get_agent" /\ ag_history[k].fn = "get_agent"
        /\ ag_history[i].thread # ag_history[j].thread
        /\ ag_history[i].result = ag_history[j].result
        /\ ag_history[i].resets = 0 /\ ag_history[j].resets = 0 /\ ag_history[k].resets = 1
        /\ ag_history[k].result # ag_history[i].result

\* ------------------------------------------------------ claims: safe_truncate

TruncateCalled ==
    /\ util_fn = "safe_truncate"
    /\ util_args.text.tag = "str"
    /\ util_args.max_length >= 0

\* C22, as claimed: for every text, every max_length >= 0 and every suffix, the
\* result of safe_truncate is at most max_length characters long; a text no
\* longer than max_length is returned unchanged, and a longer text gives a
\* result of exactly max_length characters that ends with the suffix.
C22_ResultAtMostMaxLength ==
    TruncateCalled =>
        /\ util_out.tag = "str"
        /\ Len(util_out.s) <= util_args.max_length
        /\ Len(util_args.text.s) <= util_args.max_length => util_out = util_args.text
        /\ Len(util_args.text.s) > util_args.max_length =>
              /\ Len(util_out.s) = util_args.max_length
              /\ EndsWith(util_out.s, util_args.suffix)

\* ------------------------------------------------ claims: parse_memory_line

ParseCalled == util_fn = "parse_memory_line"
PipePositions(s) == {i \in 1 .. Len(s) : s[i] = "|"}

\* t is x without its leading and trailing whitespace
IsTrimOf(t, x) ==
    /\ t # <<>> => t[1] \notin SpaceChars /\ t[Len(t)] \notin SpaceChars
    /\ \E l \in 0 .. Len(x) - Len(t) :
          /\ SubSeq(x, l + 1, l + Len(t)) = t
          /\ \A i \in (1 .. l) \cup (l + Len(t) + 1 .. Len(x)) : x[i] \in SpaceChars

\* C27: parse_memory_line returns None exactly when the line is None or empty,
\* holds contact: in no letter case, or holds no "|"; otherwise it returns
\* (key, date, notes) where key is the trimmed text before the first "|", date
\* the trimmed text between the first "|" and the second (or the end), and notes
\* the trimmed text after the second "|", further "|" included, or None when
\* there is no second "|".
C27_NoneOrTrimmedTriple ==
    ParseCalled =>
        LET line == util_args.line
            pipes == PipePositions(line.s)
            p1 == CHOOSE i \in pipes : \A j \in pipes : i <= j
            p2 == CHOOSE i \in pipes \ {p1} : \A j \in pipes \ {p1} : i <= j
        IN /\ util_out.tag = "none" <=>
                 \/ line.tag = "none"
                 \/ line.s = <<>>
                 \/ ~Contains(lower(line.s), <<"c", "o", "n", "t", "a", "c", "t", ":">>)
                 \/ pipes = {}
           /\ util_out.tag # "none" =>
                 /\ util_out.tag = "tuple"
                 /\ util_out.key.tag = "str" /\ util_out.date.tag = "str"
                 /\ IsTrimOf(util_out.key.s, SubSeq(line.s, 1, p1 - 1))
                 /\ IF Cardinality(pipes) = 1
                      THEN /\ IsTrimOf(util_out.date.s, SubSeq(line.s, p1 + 1, Len(line.s)))
                           /\ util_out.notes = PyNone
                      ELSE /\ IsTrimOf(util_out.date.s, SubSeq(line.s, p1 + 1, p2 - 1))
                           /\ util_out.notes.tag = "str"
                           /\ IsTrimOf(util_out.notes.s, SubSeq(line.s, p2 + 1, Len(line.s)))
                           /\ Cardinality(PipePositions(util_out.notes.s)) = Cardinality(pipes) - 2

\* C27 witness: a line with four "|" gave a key, a date and notes that kept the
\* last two "|".
C27_Witness ==
    /\ ParseCalled
    /\ util_args.line = PyStr(<<" ", "C", "o", "n", "t", "a", "c", "t", ":", "a", "\t", "|", " ", "d", " ", "|", " ", "a", " ", "|", " ", "b", " ", "|">>)
    /\ util_out = Parsed(PyStr(<<"C", "o", "n", "t", "a", "c", "t", ":", "a">>), PyStr(<<"d">>), PyStr(<<"a", " ", "|", " ", "b", " ", "|">>))

\* ------------------------------------------------ claims: email-insights cache

\* the handler calls that went past the two early returns
LookedUp(h) == h.result \in {"hit", "analyzed", "failed", "propagated"}

\* C29: the cache serves an entry only while its age is strictly less than
\* INSIGHTS_CACHE_TTL_SECONDS; a lookup of an older entry removes it and is a
\* miss; a hit leaves the entry and its timestamp as they were; the LLM is
\* called only on a miss; an entry is stored only after retry_with_backoff
\* returned, with the time of the store; and when every attempt raised an
\* Exception the handler returns with a warning and the cache stays as the
\* lookup left it.
C29_CacheServesFreshEntriesOnly ==
    /\ \A k \in DOMAIN _insights_cache : _insights_cache[k].timestamp <= now
    /\ \A i \in 1 .. Len(ei_history) :
        LET h == ei_history[i] IN
        /\ (h.result = "hit") <=>
               (LookedUp(h) /\ h.present /\ h.age < INSIGHTS_CACHE_TTL_SECONDS)
        /\ h.result = "hit" =>
               /\ h.cache_after = h.cache_before
               /\ ~h.llm_called
        /\ h.result = "skipped" =>
               /\ h.cache_after = h.cache_before
               /\ ~h.llm_called
        /\ (LookedUp(h) /\ h.result # "hit") =>
               /\ h.present => h.age >= INSIGHTS_CACHE_TTL_SECONDS
               /\ h.key \notin DOMAIN h.cache_looked
               /\ h.cache_looked = CacheDel(h.cache_before, h.key)
               /\ h.llm_called
        /\ h.cache_after # h.cache_looked =>
               /\ h.result = "analyzed"
               /\ h.llm_returned
        /\ h.result = "analyzed" =>
               /\ h.llm_returned
               /\ h.cache_after = CacheSet(h.cache_looked, h.key, "success", h.stored_at)
        /\ h.result = "failed" =>
               /\ ~h.llm_returned
               /\ h.warnings = 1
               /\ h.cache_after = h.cache_looked

\* an entry is stored, served a second before its lifetime is over, and a second
\* later found expired and removed by a call whose LLM attempts all fail
C29_Witness ==
    \E i, j, k \in 1 .. Len(ei_history) :
        /\ i < j /\ j < k
        /\ ei_history[i].result = "analyzed"
        /\ ei_history[j].key = ei_history[i].key
        /\ ei_history[j].result = "hit"
        /\ ei_history[j].age = INSIGHTS_CACHE_TTL_SECONDS - 1
        /\ ei_history[k].key = ei_history[i].key
        /\ ei_history[k].present
        /\ ei_history[k].age = INSIGHTS_CACHE_TTL_SECONDS
        /\ ei_history[k].result = "failed"
        /\ ei_history[k].cache_after = EmptyCache

====
